---- MODULE Spec2Model ----
(***************************************************************************)
(* Model of the service layer of the IMSS batch management module          *)
(* (src/app.py): batch lifecycle, procurement updates, the delta-based     *)
(* allocation engine, manual allocation overrides and the audit log.       *)
(*                                                                         *)
(* Tables are sequences of records in row order, as the DataFrames are.    *)
(* Identifiers are the numeric suffix of the "<PREFIX>-<nnnn>" strings.    *)
(* The audit log is write-only for the program (only dl_next_id reads its  *)
(* ids), so it is kept as its length, audit_count, and the rows appended   *)
(* by the most recent operation, audit_new.                                *)
(***************************************************************************)
EXTENDS Integers, Sequences, FiniteSets, TLC

\* ------------------------------------------------------------- bounds
MaxBatches == 2
MaxReceived == 2
MaxEdits == 2
MaxAudit == 3
MaxAuditLifecycle == 6
MaxAuditAllocation == 4
MaxBatchesAllocation == 1
MaxReceivedEngine == 4
MaxAuditEngine == 2
MaxAuditMode == 4
MaxAuditReset == 2

\* ------------------------------------------------- constants of app.py
PRIORITY_ORDER == [Critical |-> 0, High |-> 1, Normal |-> 2]

BATCH_TRANSITIONS ==
  [s \in {"Draft", "Subm to Procurement", "Under Procurement",
          "Partially Received", "Fully Received", "Closed"} |->
     CASE s = "Draft"               -> <<"Subm to Procurement">>
       [] s = "Subm to Procurement" -> <<"Under Procurement">>
       [] s = "Under Procurement"   -> <<"Partially Received">>
       [] s = "Partially Received"  -> <<"Fully Received">>
       [] s = "Fully Received"      -> <<"Closed">>
       [] s = "Closed"              -> <<>>]

ALLOCATION_MODES == {"Priority First then FIFO", "FIFO", "Manual Only"}

ALLOCATION_STATUSES ==
  {"Allocated", "ManualOverride", "Packed", "Collected", "DeliveredConfirmed"}

BRIGADES == {"KAMB", "IMSMB"}

\* ------------------------------------------------------------- helpers
Min(a, b) == IF a < b THEN a ELSE b

Clip0(x) == IF x < 0 THEN 0 ELSE x

Range(s) == {s[i] : i \in DOMAIN s}

RECURSIVE SeqSum(_)
SeqSum(s) == IF s = <<>> THEN 0 ELSE Head(s) + SeqSum(Tail(s))

RECURSIVE SetToSortedSeq(_)
SetToSortedSeq(S) ==
  IF S = {} THEN <<>>
  ELSE LET m == CHOOSE x \in S : \A y \in S : x <= y
       IN <<m>> \o SetToSortedSeq(S \ {m})

\* ---------------------------------------------------------- data layer
_next_id_from_list(existing) ==
  IF existing = {} THEN 1
  ELSE (CHOOSE m \in existing : \A x \in existing : x <= m) + 1

\* Identifiers as the text the tables store: the characters of the prefix,
\* a dash and the decimal digits of the sequence number, at least IdWidth of
\* them. The tables of the model hold the sequence numbers.
DigitChars == <<"0", "1", "2", "3", "4", "5", "6", "7", "8", "9">>

IdWidth == 4

DigitOf(c) == CHOOSE d \in 0 .. 9 : DigitChars[d + 1] = c

RECURSIVE Decimal(_)
Decimal(n) ==
  IF n < 10 THEN <<DigitChars[n + 1]>>
  ELSE Decimal(n \div 10) \o <<DigitChars[(n % 10) + 1]>>

RECURSIVE PadLeft(_, _)
PadLeft(digits, width) ==
  IF Len(digits) >= width THEN digits ELSE PadLeft(<<"0">> \o digits, width)

\* f"{prefix}-{n:04d}"
IdText(prefix, n) == prefix \o <<"-">> \o PadLeft(Decimal(n), IdWidth)

\* str(eid).replace(f"{prefix}-", "")
StripPrefix(prefix, eid) ==
  LET lead == prefix \o <<"-">>
  IN IF Len(eid) >= Len(lead) /\ SubSeq(eid, 1, Len(lead)) = lead
     THEN SubSeq(eid, Len(lead) + 1, Len(eid))
     ELSE eid

\* int(...) succeeds on a non-empty run of digits
IsNumber(text) == text # <<>> /\ \A i \in DOMAIN text : text[i] \in Range(DigitChars)

RECURSIVE ValueOf(_)
ValueOf(text) ==
  IF text = <<>> THEN 0
  ELSE ValueOf(SubSeq(text, 1, Len(text) - 1)) * 10 + DigitOf(text[Len(text)])

\* nums: the suffixes that parse; the others are passed over
SuffixNumbers(prefix, existing) ==
  {ValueOf(StripPrefix(prefix, eid)) :
     eid \in {e \in existing : IsNumber(StripPrefix(prefix, e))}}

\* dl_next_id on the id column of a table, as text
dl_next_id(prefix, existing) ==
  IdText(prefix, _next_id_from_list(SuffixNumbers(prefix, existing)))

\* an audit write that replaces the rows written so far by the new row
dl_audit_overwriting(count, rows, entity_type, entity_id, action, old_value, new_value) ==
  << [audit_id    |-> _next_id_from_list(1 .. (count + Len(rows))),
      entity_type |-> entity_type,
      entity_id   |-> entity_id,
      action      |-> action,
      old_value   |-> old_value,
      new_value   |-> new_value] >>

\* an audit row that stores the two values in each other's column
dl_audit_values_swapped(count, rows, entity_type, entity_id, action, old_value, new_value) ==
  Append(rows,
         [audit_id    |-> _next_id_from_list(1 .. (count + Len(rows))),
          entity_type |-> entity_type,
          entity_id   |-> entity_id,
          action      |-> action,
          old_value   |-> new_value,
          new_value   |-> old_value])

\* dl_audit appends one row to the rows written so far by the running
\* operation; count is the length of the audit log before the operation.
dl_audit(count, rows, entity_type, entity_id, action, old_value, new_value) ==
  Append(rows,
         [audit_id    |-> _next_id_from_list(1 .. (count + Len(rows))),
          entity_type |-> entity_type,
          entity_id   |-> entity_id,
          action      |-> action,
          old_value   |-> old_value,
          new_value   |-> new_value])

\* ------------------------------------------------------- demo data set
\* A data set in the shape of init_data: a newer Critical and an older Normal
\* work order of one brigade that need the same part, and one part line that
\* is already fully received (as LN-0018 is).
work_orders ==
  << [wo_id |-> 1, brigade |-> "KAMB", priority |-> "Critical", created_date |-> 2],
     [wo_id |-> 2, brigade |-> "KAMB", priority |-> "Normal",   created_date |-> 1] >>

raw_lines ==
  << [line_id |-> 1, wo_id |-> 1, part_no |-> 1, required_qty |-> 2, received_qty |-> 0],
     [line_id |-> 2, wo_id |-> 2, part_no |-> 1, required_qty |-> 1, received_qty |-> 0],
     [line_id |-> 3, wo_id |-> 2, part_no |-> 2, required_qty |-> 1, received_qty |-> 1] >>

\* ------------------------------------------------------- service layer
\* a derivation that calls a line Ready only above its required quantity
svc_derive_wo_part_lines_ready_above(df) ==
  [i \in DOMAIN df |->
     [line_id         |-> df[i].line_id,
      wo_id           |-> df[i].wo_id,
      part_no         |-> df[i].part_no,
      required_qty    |-> df[i].required_qty,
      received_qty    |-> df[i].received_qty,
      outstanding_qty |-> Clip0(df[i].required_qty - df[i].received_qty),
      line_status     |-> IF df[i].received_qty > df[i].required_qty THEN "Ready"
                          ELSE IF df[i].received_qty > 0 THEN "Partial"
                          ELSE "Waiting"]]

svc_derive_wo_part_lines(df) ==
  [i \in DOMAIN df |->
     [line_id         |-> df[i].line_id,
      wo_id           |-> df[i].wo_id,
      part_no         |-> df[i].part_no,
      required_qty    |-> df[i].required_qty,
      received_qty    |-> df[i].received_qty,
      outstanding_qty |-> Clip0(df[i].required_qty - df[i].received_qty),
      line_status     |-> IF df[i].received_qty >= df[i].required_qty THEN "Ready"
                          ELSE IF df[i].received_qty > 0 THEN "Partial"
                          ELSE "Waiting"]]

VARIABLES wo_part_lines, batches, batch_lines, allocations, config,
          audit_count, audit_new, result

vars == <<wo_part_lines, batches, batch_lines, allocations, config,
          audit_count, audit_new, result>>

Result(op, ok, id, target, qty, why) ==
  [op |-> op, ok |-> ok, why |-> why]

Init ==
  /\ wo_part_lines = svc_derive_wo_part_lines(raw_lines)
  /\ batches = <<>>
  /\ batch_lines = <<>>
  /\ allocations = <<>>
  /\ config = [allocation_mode |-> "Priority First then FIFO"]
  /\ audit_count = 0
  /\ audit_new = <<>>
  /\ result = Result("init", TRUE, 0, "", 0, "")

\* ── Status state machine ──────────────────────────────────────
\* faulty variant for C4: any status of the table is accepted as a target
svc_can_transition_any_status(current, new) ==
  new \in DOMAIN BATCH_TRANSITIONS

svc_can_transition(current, new) ==
  IF current \in DOMAIN BATCH_TRANSITIONS
  THEN new \in Range(BATCH_TRANSITIONS[current])
  ELSE FALSE

BatchRows(batch_id) == SelectSeq(batches, LAMBDA b : b.batch_id = batch_id)

svc_transition_batch(batch_id, new_status) ==
  LET row == BatchRows(batch_id) IN
  IF row = <<>>
  THEN /\ result' = Result("transition", FALSE, batch_id, new_status, 0, "not found")
       /\ audit_new' = <<>>
       /\ UNCHANGED <<wo_part_lines, batches, batch_lines, allocations, config, audit_count>>
  ELSE LET current == row[1].batch_status IN
       IF ~svc_can_transition(current, new_status)
       THEN /\ result' = Result("transition", FALSE, batch_id, new_status, 0, "cannot transition")
            /\ audit_new' = <<>>
            /\ UNCHANGED <<wo_part_lines, batches, batch_lines, allocations, config, audit_count>>
       ELSE LET rows == dl_audit(audit_count, <<>>, "Batch", batch_id,
                                 "STATUS_CHANGE", current, new_status)
            IN /\ audit_new' = rows
               /\ audit_count' = audit_count + Len(rows)
               /\ batches' = [i \in DOMAIN batches |->
                                IF batches[i].batch_id = batch_id
                                THEN [batches[i] EXCEPT !.batch_status = new_status]
                                ELSE batches[i]]
               /\ result' = Result("transition", TRUE, batch_id, new_status, 0, "")
               /\ UNCHANGED <<wo_part_lines, batch_lines, allocations, config>>

\* ── Integrity validators (TRUE = the check passes) ────────────
ACTIVE_STATUSES ==
  {"Draft", "Subm to Procurement", "Under Procurement", "Partially Received"}

\* faulty variant for C11: the active-batch lookup is skipped
svc_validate_no_duplicate_active_lines_skipped(line_ids) == TRUE

svc_validate_no_duplicate_active_lines(line_ids) ==
  LET active_bids   == {b.batch_id : b \in {x \in Range(batches) : x.batch_status \in ACTIVE_STATUSES}}
      active_bl_ids == {l.batch_line_id : l \in {x \in Range(batch_lines) : x.batch_id \in active_bids}}
      locked        == {a.line_id : a \in {x \in Range(allocations) : x.batch_line_id \in active_bl_ids}}
  IN (line_ids \cap locked) = {}

svc_validate_single_brigade_skipped(wo_ids, brigade) == TRUE

svc_validate_single_brigade(wo_ids, brigade) ==
  \A w \in wo_ids :
    \E r \in Range(work_orders) : r.wo_id = w /\ r.brigade = brigade

\* faulty variant for C6: the Closed check is skipped
svc_validate_batch_not_closed_skipped(batch_id) == TRUE

svc_validate_batch_not_closed(batch_id) ==
  LET b == BatchRows(batch_id) IN
  ~(b # <<>> /\ b[1].batch_status = "Closed")

AllocRowsOfLine(allocs, batch_line_id) ==
  SelectSeq(allocs, LAMBDA a : a.batch_line_id = batch_line_id)

QtyColumn(rows) == [i \in DOMAIN rows |-> rows[i].allocated_qty]

\* faulty variant for C9: the allocated total is not compared
svc_validate_received_not_below_allocated_skipped(batch_line_id, new_received) == TRUE

svc_validate_received_not_below_allocated(batch_line_id, new_received) ==
  LET total_alloc == SeqSum(QtyColumn(AllocRowsOfLine(allocations, batch_line_id)))
  IN ~(new_received < total_alloc)

svc_validate_fully_received(batch_id) ==
  LET lines == SelectSeq(batch_lines, LAMBDA l : l.batch_id = batch_id)
      outstanding == SeqSum([i \in DOMAIN lines |->
                               Clip0(lines[i].total_required_qty - lines[i].received_qty)])
  IN ~(outstanding > 0)

\* ── Allocation engine ─────────────────────────────────────────
WorkOrderOf(wo_id) == CHOOSE r \in Range(work_orders) : r.wo_id = wo_id

RequiredOf(wpl, line_id) ==
  (CHOOSE r \in Range(wpl) : r.line_id = line_id).required_qty

\* priority.map(PRIORITY_ORDER).fillna(9)
PriorityRank(priority) ==
  IF priority \in DOMAIN PRIORITY_ORDER THEN PRIORITY_ORDER[priority] ELSE 9

\* the merge of the batch line's allocations with work_orders and wo_part_lines
JoinRows(batch_allocs, wpl) ==
  [i \in DOMAIN batch_allocs |->
     [allocation_id     |-> batch_allocs[i].allocation_id,
      line_id           |-> batch_allocs[i].line_id,
      allocation_status |-> batch_allocs[i].allocation_status,
      allocated_qty     |-> batch_allocs[i].allocated_qty,
      pos               |-> i,
      prank             |-> PriorityRank(WorkOrderOf(batch_allocs[i].wo_id).priority),
      created_date      |-> WorkOrderOf(batch_allocs[i].wo_id).created_date,
      outstanding       |-> Clip0(RequiredOf(wpl, batch_allocs[i].line_id)
                                  - batch_allocs[i].allocated_qty)]]

\* an ordering by created_date in every mode
RowBefore_by_date(mode, a, b) ==
  \/ a.created_date < b.created_date
  \/ a.created_date = b.created_date /\ a.pos < b.pos

\* sort_values(["_prank", "created_date"]) or sort_values("created_date");
\* rows equal under the key keep their table order.
RowBefore(mode, a, b) ==
  IF mode = "Priority First then FIFO"
  THEN \/ a.prank < b.prank
       \/ a.prank = b.prank /\ a.created_date < b.created_date
       \/ a.prank = b.prank /\ a.created_date = b.created_date /\ a.pos < b.pos
  ELSE \/ a.created_date < b.created_date
       \/ a.created_date = b.created_date /\ a.pos < b.pos

RECURSIVE SortRows(_, _)
SortRows(mode, rows) ==
  IF rows = <<>> THEN <<>>
  ELSE LET i == CHOOSE k \in DOMAIN rows :
                  \A j \in DOMAIN rows : j = k \/ RowBefore(mode, rows[k], rows[j])
           rest == [j \in 1 .. (Len(rows) - 1) |-> IF j < i THEN rows[j] ELSE rows[j + 1]]
       IN <<rows[i]>> \o SortRows(mode, rest)

\* faulty variant for C13: a row is given the remaining quantity whatever
\* its outstanding quantity
RECURSIVE DistributePositive_uncapped(_, _, _)
DistributePositive_uncapped(rows, idx, remaining) ==
  IF idx > Len(rows) \/ remaining <= 0 THEN rows
  ELSE DistributePositive_uncapped([rows EXCEPT ![idx].allocated_qty = @ + remaining],
                                   idx + 1, 0)

\* for idx in range(len(batch_allocs)): positive delta
RECURSIVE DistributePositive(_, _, _)
DistributePositive(rows, idx, remaining) ==
  IF idx > Len(rows) \/ remaining <= 0 THEN rows
  ELSE LET give == Min(rows[idx].outstanding, remaining)
       IN DistributePositive([rows EXCEPT ![idx].allocated_qty = @ + give],
                             idx + 1, remaining - give)

\* faulty variant for C14: the quantity still to remove is not decremented
RECURSIVE DistributeNegative_no_decrement(_, _, _)
DistributeNegative_no_decrement(rows, idx, to_reduce) ==
  IF idx < 1 \/ to_reduce <= 0 THEN rows
  ELSE IF rows[idx].allocation_status = "ManualOverride"
       THEN DistributeNegative_no_decrement(rows, idx - 1, to_reduce)
       ELSE LET cur       == rows[idx].allocated_qty
                reduce_by == Min(cur, to_reduce)
            IN DistributeNegative_no_decrement(
                 [rows EXCEPT ![idx].allocated_qty = cur - reduce_by], idx - 1, to_reduce)

\* faulty variant for C7: ManualOverride rows are reduced like the others
RECURSIVE DistributeNegative_no_skip(_, _, _)
DistributeNegative_no_skip(rows, idx, to_reduce) ==
  IF idx < 1 \/ to_reduce <= 0 THEN rows
  ELSE LET cur       == rows[idx].allocated_qty
           reduce_by == Min(cur, to_reduce)
       IN DistributeNegative_no_skip([rows EXCEPT ![idx].allocated_qty = cur - reduce_by],
                                     idx - 1, to_reduce - reduce_by)

\* for idx in reversed(range(len(batch_allocs))): negative delta
RECURSIVE DistributeNegative(_, _, _)
DistributeNegative(rows, idx, to_reduce) ==
  IF idx < 1 \/ to_reduce <= 0 THEN rows
  ELSE IF rows[idx].allocation_status = "ManualOverride"
       THEN DistributeNegative(rows, idx - 1, to_reduce)
       ELSE LET cur       == rows[idx].allocated_qty
                reduce_by == Min(cur, to_reduce)
            IN DistributeNegative([rows EXCEPT ![idx].allocated_qty = cur - reduce_by],
                                  idx - 1, to_reduce - reduce_by)

\* faulty variant for C38: every part line that has an allocation is refreshed
RefreshPartLines_every_line(wpl, allocs, affected) ==
  svc_derive_wo_part_lines(
    [i \in DOMAIN wpl |->
       IF \E a \in Range(allocs) : a.line_id = wpl[i].line_id
       THEN [wpl[i] EXCEPT !.received_qty =
               SeqSum(QtyColumn(SelectSeq(allocs, LAMBDA a : a.line_id = wpl[i].line_id)))]
       ELSE wpl[i]])

\* received_qty of the lines in affected := sum of allocated_qty over all
\* allocations that reference the line, then the derived columns
RefreshPartLines(wpl, allocs, affected) ==
  svc_derive_wo_part_lines(
    [i \in DOMAIN wpl |->
       IF wpl[i].line_id \in affected
          /\ \E a \in Range(allocs) : a.line_id = wpl[i].line_id
       THEN [wpl[i] EXCEPT !.received_qty =
               SeqSum(QtyColumn(SelectSeq(allocs, LAMBDA a : a.line_id = wpl[i].line_id)))]
       ELSE wpl[i]])

\* a write-back that stores the rows of the batch line as the whole table
EngineWalk_line_rows_only(allocs, wpl, mode, batch_line_id, delta) ==
  LET batch_allocs == AllocRowsOfLine(allocs, batch_line_id)
      sorted   == SortRows(mode, JoinRows(batch_allocs, wpl))
      walked   == IF delta > 0
                  THEN DistributePositive(sorted, 1, delta)
                  ELSE DistributeNegative(sorted, Len(sorted), 0 - delta)
      updated  == [i \in DOMAIN batch_allocs |->
                     [batch_allocs[i] EXCEPT !.allocated_qty =
                        (CHOOSE r \in Range(walked) :
                           r.allocation_id = batch_allocs[i].allocation_id).allocated_qty]]
      affected == {r.line_id : r \in Range(walked)}
  IN [allocations |-> updated,
      wo_part_lines |-> RefreshPartLines(wpl, updated, affected)]

\* sort, distribute the delta, write back, refresh the part lines
EngineWalk(allocs, wpl, mode, batch_line_id, delta) ==
  LET batch_allocs == AllocRowsOfLine(allocs, batch_line_id)
      sorted   == SortRows(mode, JoinRows(batch_allocs, wpl))
      walked   == IF delta > 0
                  THEN DistributePositive(sorted, 1, delta)
                  ELSE DistributeNegative(sorted, Len(sorted), 0 - delta)
      updated  == [i \in DOMAIN allocs |->
                     IF \E r \in Range(walked) : r.allocation_id = allocs[i].allocation_id
                     THEN [allocs[i] EXCEPT !.allocated_qty =
                             (CHOOSE r \in Range(walked) :
                                r.allocation_id = allocs[i].allocation_id).allocated_qty]
                     ELSE allocs[i]]
      affected == {r.line_id : r \in Range(walked)}
  IN [allocations |-> updated,
      wo_part_lines |-> RefreshPartLines(wpl, updated, affected)]

\* an engine that keeps to the mode it first knew
svc_run_allocation_engine_default_mode(allocs, wpl, mode, batch_line_id, new_received, old_received) ==
  IF new_received = old_received \/ AllocRowsOfLine(allocs, batch_line_id) = <<>>
  THEN [allocations |-> allocs, wo_part_lines |-> wpl]
  ELSE EngineWalk(allocs, wpl, "Priority First then FIFO", batch_line_id,
                  new_received - old_received)

\* faulty variant for C16: the Manual Only setting is not consulted
svc_run_allocation_engine_any_mode(allocs, wpl, mode, batch_line_id, new_received, old_received) ==
  IF new_received = old_received \/ AllocRowsOfLine(allocs, batch_line_id) = <<>>
  THEN [allocations |-> allocs, wo_part_lines |-> wpl]
  ELSE EngineWalk(allocs, wpl, mode, batch_line_id, new_received - old_received)

\* The engine as a function of the tables it reads; its value is the pair
\* of tables it writes.
svc_run_allocation_engine(allocs, wpl, mode, batch_line_id, new_received, old_received) ==
  LET delta        == new_received - old_received
      batch_allocs == AllocRowsOfLine(allocs, batch_line_id)
  IN
  IF mode = "Manual Only" \/ delta = 0 \/ batch_allocs = <<>>
  THEN [allocations |-> allocs, wo_part_lines |-> wpl]
  ELSE EngineWalk(allocs, wpl, mode, batch_line_id, delta)

\* a recomputation that calls a batch fully received only above the
\* required total
svc_recalc_batch_status_strict(lines_table, batch_id) ==
  LET lines == SelectSeq(lines_table, LAMBDA l : l.batch_id = batch_id)
      total_req == SeqSum([i \in DOMAIN lines |-> lines[i].total_required_qty])
      total_rec == SeqSum([i \in DOMAIN lines |-> lines[i].received_qty])
  IN IF lines = <<>> THEN "Draft"
     ELSE IF total_rec = 0 THEN "Under Procurement"
     ELSE IF total_rec > total_req THEN "Fully Received"
     ELSE "Partially Received"

svc_recalc_batch_status(lines_table, batch_id) ==
  LET lines == SelectSeq(lines_table, LAMBDA l : l.batch_id = batch_id)
      total_req == SeqSum([i \in DOMAIN lines |-> lines[i].total_required_qty])
      total_rec == SeqSum([i \in DOMAIN lines |-> lines[i].received_qty])
  IN IF lines = <<>> THEN "Draft"
     ELSE IF total_rec = 0 THEN "Under Procurement"
     ELSE IF total_rec >= total_req THEN "Fully Received"
     ELSE "Partially Received"

\* ── Create batch ──────────────────────────────────────────────
\* the allocation stubs of one new batch line: one per eligible part line
\* of the group's part number, ids minted from the stored and the pending ids
RECURSIVE NewAllocsFor(_, _, _)
NewAllocsFor(part_lines, bl_id, existing_al) ==
  IF part_lines = <<>> THEN <<>>
  ELSE LET pl   == Head(part_lines)
           a_id == _next_id_from_list(existing_al)
       IN << [allocation_id     |-> a_id,
              batch_line_id     |-> bl_id,
              wo_id             |-> pl.wo_id,
              line_id           |-> pl.line_id,
              allocated_qty     |-> 0,
              allocation_status |-> "Allocated",
              notes             |-> ""] >>
          \o NewAllocsFor(Tail(part_lines), bl_id, existing_al \cup {a_id})

\* a loop that mints every id from the stored ids alone
RECURSIVE NewLinesFor_stored_ids_only(_, _, _, _, _, _)
NewLinesFor_stored_ids_only(parts, eligible, new_batch_id, existing_bl, existing_al, acc) ==
  IF parts = <<>> THEN acc
  ELSE LET part_no == Head(parts)
           group   == SelectSeq(eligible, LAMBDA r : r.part_no = part_no)
           bl_id   == _next_id_from_list(existing_bl)
           bline   == [batch_line_id          |-> bl_id,
                       batch_id               |-> new_batch_id,
                       part_no                |-> part_no,
                       total_required_qty     |-> SeqSum([i \in DOMAIN group |-> group[i].outstanding_qty]),
                       vendor                 |-> "",
                       po_numbers             |-> "",
                       ordered_qty            |-> 0,
                       received_qty           |-> 0,
                       expected_delivery_date |-> 0]
           stubs   == NewAllocsFor(group, bl_id, existing_al)
       IN NewLinesFor_stored_ids_only(Tail(parts), eligible, new_batch_id,
                      existing_bl, existing_al,
                      [new_blines |-> Append(acc.new_blines, bline),
                       new_allocs |-> acc.new_allocs \o stubs])

\* for _, bl_row in agg.iterrows(): the new batch lines and allocation stubs
RECURSIVE NewLinesFor(_, _, _, _, _, _)
NewLinesFor(parts, eligible, new_batch_id, existing_bl, existing_al, acc) ==
  IF parts = <<>> THEN acc
  ELSE LET part_no == Head(parts)
           group   == SelectSeq(eligible, LAMBDA r : r.part_no = part_no)
           bl_id   == _next_id_from_list(existing_bl)
           bline   == [batch_line_id          |-> bl_id,
                       batch_id               |-> new_batch_id,
                       part_no                |-> part_no,
                       total_required_qty     |-> SeqSum([i \in DOMAIN group |-> group[i].outstanding_qty]),
                       vendor                 |-> "",
                       po_numbers             |-> "",
                       ordered_qty            |-> 0,
                       received_qty           |-> 0,
                       expected_delivery_date |-> 0]
           stubs   == NewAllocsFor(group, bl_id, existing_al)
       IN NewLinesFor(Tail(parts), eligible, new_batch_id,
                      existing_bl \cup {bl_id},
                      existing_al \cup {a.allocation_id : a \in Range(stubs)},
                      [new_blines |-> Append(acc.new_blines, bline),
                       new_allocs |-> acc.new_allocs \o stubs])

\* a creation that ignores the submit flag
InitialBatchStatus_always_draft(submit_immediately) ==
  "Draft"

InitialBatchStatus(submit_immediately) ==
  IF submit_immediately THEN "Subm to Procurement" ELSE "Draft"

svc_create_batch(brigade, selected_wo_ids, submit_immediately) ==
  LET eligible == SelectSeq(wo_part_lines, LAMBDA r : r.wo_id \in selected_wo_ids) IN
  IF ~svc_validate_single_brigade(selected_wo_ids, brigade)
  THEN /\ result' = Result("create", FALSE, 0, "", 0, "brigade")
       /\ audit_new' = <<>>
       /\ UNCHANGED <<wo_part_lines, batches, batch_lines, allocations, config, audit_count>>
  ELSE IF ~svc_validate_no_duplicate_active_lines({r.line_id : r \in Range(eligible)})
  THEN /\ result' = Result("create", FALSE, 0, "", 0, "duplicate")
       /\ audit_new' = <<>>
       /\ UNCHANGED <<wo_part_lines, batches, batch_lines, allocations, config, audit_count>>
  ELSE LET new_batch_id == _next_id_from_list({b.batch_id : b \in Range(batches)})
           status       == InitialBatchStatus(submit_immediately)
           agg          == SetToSortedSeq({r.part_no : r \in Range(eligible)})
           made         == NewLinesFor(agg, eligible, new_batch_id,
                                       {l.batch_line_id : l \in Range(batch_lines)},
                                       {a.allocation_id : a \in Range(allocations)},
                                       [new_blines |-> <<>>, new_allocs |-> <<>>])
           rows         == dl_audit(audit_count, <<>>, "Batch", new_batch_id, "CREATED", "",
                                    "brigade=" \o brigade \o " WOs=" \o ToString(selected_wo_ids)
                                      \o " status=" \o status)
       IN /\ batches' = Append(batches, [batch_id |-> new_batch_id, brigade |-> brigade,
                                         batch_status |-> status])
          /\ batch_lines' = batch_lines \o made.new_blines
          /\ allocations' = allocations \o made.new_allocs
          /\ audit_new' = rows
          /\ audit_count' = audit_count + Len(rows)
          /\ result' = Result("create", TRUE, new_batch_id, status, 0, "")
          /\ UNCHANGED <<wo_part_lines, config>>

\* ── Update procurement line ───────────────────────────────────
\* an auto-advance that spares only a closed batch
AutoAdvanceAllowed_only_closed(current_bs) ==
  current_bs \notin {"Closed"}

\* the statuses from which the recomputed status may replace the stored one
AutoAdvanceAllowed(current_bs) ==
  current_bs \notin {"Closed", "Draft", "Subm to Procurement"}

svc_update_procurement_line(batch_line_id, details, new_received) ==
  LET row == SelectSeq(batch_lines, LAMBDA l : l.batch_line_id = batch_line_id) IN
  IF row = <<>>
  THEN /\ result' = Result("update", FALSE, batch_line_id, "", new_received, "not found")
       /\ audit_new' = <<>>
       /\ UNCHANGED <<wo_part_lines, batches, batch_lines, allocations, config, audit_count>>
  ELSE
  LET batch_id     == row[1].batch_id
      old_received == row[1].received_qty
  IN
  IF ~svc_validate_batch_not_closed(batch_id)
  THEN /\ result' = Result("update", FALSE, batch_line_id, "", new_received, "closed")
       /\ audit_new' = <<>>
       /\ UNCHANGED <<wo_part_lines, batches, batch_lines, allocations, config, audit_count>>
  ELSE IF ~svc_validate_received_not_below_allocated(batch_line_id, new_received)
  THEN /\ result' = Result("update", FALSE, batch_line_id, "", new_received, "below allocated")
       /\ audit_new' = <<>>
       /\ UNCHANGED <<wo_part_lines, batches, batch_lines, allocations, config, audit_count>>
  ELSE
  LET rows1     == dl_audit(audit_count, <<>>, "BatchLine", batch_line_id, "PROCUREMENT_UPDATE",
                            "received=" \o ToString(old_received),
                            "received=" \o ToString(new_received))
      new_lines == [i \in DOMAIN batch_lines |->
                      IF batch_lines[i].batch_line_id = batch_line_id
                      THEN [batch_lines[i] EXCEPT
                              !.vendor = details.vendor,
                              !.po_numbers = details.po_numbers,
                              !.ordered_qty = details.ordered_qty,
                              !.received_qty = new_received,
                              !.expected_delivery_date = details.expected_delivery_date]
                      ELSE batch_lines[i]]
      engine    == IF new_received # old_received
                   THEN svc_run_allocation_engine(allocations, wo_part_lines,
                                                  config.allocation_mode,
                                                  batch_line_id, new_received, old_received)
                   ELSE [allocations |-> allocations, wo_part_lines |-> wo_part_lines]
      new_bs     == svc_recalc_batch_status(new_lines, batch_id)
      current_bs == BatchRows(batch_id)[1].batch_status
      auto       == AutoAdvanceAllowed(current_bs) /\ new_bs # current_bs
      rows2      == IF auto
                    THEN dl_audit(audit_count, rows1, "Batch", batch_id, "STATUS_AUTO",
                                  current_bs, new_bs)
                    ELSE rows1
  IN /\ batch_lines' = new_lines
     /\ allocations' = engine.allocations
     /\ wo_part_lines' = engine.wo_part_lines
     /\ batches' = IF auto
                   THEN [i \in DOMAIN batches |->
                           IF batches[i].batch_id = batch_id
                           THEN [batches[i] EXCEPT !.batch_status = new_bs]
                           ELSE batches[i]]
                   ELSE batches
     /\ audit_new' = rows2
     /\ audit_count' = audit_count + Len(rows2)
     /\ result' = Result("update", TRUE, batch_line_id, "", new_received, "")
     /\ UNCHANGED config

\* ── Apply allocation override ─────────────────────────────────
\* faulty variant for C8: only a lowered quantity is flagged ManualOverride
OverrideStatus_only_lowered(give, old_give, edited_status) ==
  IF give < old_give THEN "ManualOverride" ELSE edited_status

\* faulty variant for C37: the status of the edited row is always stored
OverrideStatus_always_supplied(give, old_give, edited_status) == edited_status

\* "ManualOverride" if give != old_give else the status of the edited row
OverrideStatus(give, old_give, edited_status) ==
  IF give # old_give THEN "ManualOverride" ELSE edited_status

\* for _, erow in overrides.iterrows(): every dl_update_rows and dl_audit of
\* the loop takes effect when it runs; wpl is the local copy of wo_part_lines.
RECURSIVE OverrideLoop(_, _, _, _, _)
OverrideLoop(overrides, allocs, wpl, count, rows) ==
  IF overrides = <<>>
  THEN [ok |-> TRUE, allocations |-> allocs, wpl |-> wpl, rows |-> rows]
  ELSE
  LET erow == Head(overrides)
      a_id == erow.allocation_id
      orig == SelectSeq(allocs, LAMBDA a : a.allocation_id = a_id)
  IN
  IF orig = <<>>
  THEN OverrideLoop(Tail(overrides), allocs, wpl, count, rows)
  ELSE
  LET line_id  == orig[1].line_id
      req      == RequiredOf(wpl, line_id)
      give     == erow.allocated_qty
      old_give == orig[1].allocated_qty
      new_status == OverrideStatus(give, old_give, erow.allocation_status)
      allocs2  == [i \in DOMAIN allocs |->
                     IF allocs[i].allocation_id = a_id
                     THEN [allocs[i] EXCEPT !.allocated_qty = give,
                                            !.allocation_status = new_status,
                                            !.notes = erow.notes]
                     ELSE allocs[i]]
      rows2    == dl_audit(count, rows, "Allocation", a_id, "OVERRIDE",
                           "qty=" \o ToString(old_give), "qty=" \o ToString(give))
      total_for_line == SeqSum(QtyColumn(SelectSeq(allocs2, LAMBDA a : a.line_id = line_id)))
      wpl2     == [i \in DOMAIN wpl |->
                     IF wpl[i].line_id = line_id
                     THEN [wpl[i] EXCEPT !.received_qty = total_for_line]
                     ELSE wpl[i]]
  IN
  IF give > req
  THEN [ok |-> FALSE, allocations |-> allocs, wpl |-> wpl, rows |-> rows]
  ELSE OverrideLoop(Tail(overrides), allocs2, wpl2, count, rows2)

svc_apply_allocation_override(overrides, batch_line_id) ==
  LET bl == SelectSeq(batch_lines, LAMBDA l : l.batch_line_id = batch_line_id) IN
  IF bl = <<>>
  THEN /\ result' = Result("override", FALSE, batch_line_id, "", 0, "not found")
       /\ audit_new' = <<>>
       /\ UNCHANGED <<wo_part_lines, batches, batch_lines, allocations, config, audit_count>>
  ELSE
  LET total_received == bl[1].received_qty
      new_total      == SeqSum(QtyColumn(overrides))
  IN
  IF new_total > total_received
  THEN /\ result' = Result("override", FALSE, batch_line_id, "", new_total, "total exceeds received")
       /\ audit_new' = <<>>
       /\ UNCHANGED <<wo_part_lines, batches, batch_lines, allocations, config, audit_count>>
  ELSE
  LET done == OverrideLoop(overrides, allocations, wo_part_lines, audit_count, <<>>) IN
     /\ allocations' = done.allocations
     /\ audit_new' = done.rows
     /\ audit_count' = audit_count + Len(done.rows)
     /\ wo_part_lines' = IF done.ok THEN svc_derive_wo_part_lines(done.wpl) ELSE wo_part_lines
     /\ result' = Result("override", done.ok, batch_line_id, "", new_total,
                         IF done.ok THEN "" ELSE "exceeds required")
     /\ UNCHANGED <<batches, batch_lines, config>>

\* ── Reset to auto ─────────────────────────────────────────────
\* a reset that zeroes the quantities and keeps the statuses
ZeroedAllocations_keeping_status(allocs, batch_line_id) ==
  [i \in DOMAIN allocs |->
     IF allocs[i].batch_line_id = batch_line_id
     THEN [allocs[i] EXCEPT !.allocated_qty = 0]
     ELSE allocs[i]]

\* allocs.loc[mask, "allocated_qty"] = 0; allocs.loc[mask, "allocation_status"] = "Allocated"
ZeroedAllocations(allocs, batch_line_id) ==
  [i \in DOMAIN allocs |->
     IF allocs[i].batch_line_id = batch_line_id
     THEN [allocs[i] EXCEPT !.allocated_qty = 0,
                            !.allocation_status = "Allocated"]
     ELSE allocs[i]]

svc_reset_allocation_to_auto(batch_line_id) ==
  LET zeroed   == ZeroedAllocations(allocations, batch_line_id)
      affected == {a.line_id : a \in Range(AllocRowsOfLine(allocations, batch_line_id))}
      wpl      == svc_derive_wo_part_lines(
                    [i \in DOMAIN wo_part_lines |->
                       IF wo_part_lines[i].line_id \in affected
                       THEN [wo_part_lines[i] EXCEPT !.received_qty = 0]
                       ELSE wo_part_lines[i]])
      received == (CHOOSE l \in Range(batch_lines) : l.batch_line_id = batch_line_id).received_qty
      engine   == svc_run_allocation_engine(zeroed, wpl, config.allocation_mode,
                                            batch_line_id, received, 0)
      rows     == dl_audit(audit_count, <<>>, "BatchLine", batch_line_id, "RESET_TO_AUTO",
                           "", "received=" \o ToString(received))
  IN /\ allocations' = engine.allocations
     /\ wo_part_lines' = engine.wo_part_lines
     /\ audit_new' = rows
     /\ audit_count' = audit_count + Len(rows)
     /\ result' = Result("reset", TRUE, batch_line_id, "", received, "")
     /\ UNCHANGED <<batches, batch_lines, config>>

\* ── Settings: "Save Allocation Mode" ──────────────────────────
page_settings_save_mode(new_mode) ==
  LET rows == dl_audit(audit_count, <<>>, "Config", 0, "SETTING_CHANGE",
                       config.allocation_mode, new_mode)
  IN /\ config' = [config EXCEPT !.allocation_mode = new_mode]
     /\ audit_new' = rows
     /\ audit_count' = audit_count + Len(rows)
     /\ result' = Result("mode", TRUE, 0, new_mode, 0, "")
     /\ UNCHANGED <<wo_part_lines, batches, batch_lines, allocations>>

\* ------------------------------------------------------ inputs and Next
BatchIds == {b.batch_id : b \in Range(batches)}
BatchLineIds == {l.batch_line_id : l \in Range(batch_lines)}
AllocationIds == {a.allocation_id : a \in Range(allocations)}
WorkOrderIds == {r.wo_id : r \in Range(work_orders)}

\* an id that names no row of the table
MissingId(ids) == _next_id_from_list(ids)

TransitionTargets == DOMAIN BATCH_TRANSITIONS \cup {"Unknown"}

ProcurementDetails ==
  {[vendor |-> "ACME", po_numbers |-> "PO-1", ordered_qty |-> MaxReceived,
    expected_delivery_date |-> 1]}

EditQtys == {-1, 0, 1, 2}
EditStatuses == {"Allocated", "Packed"}

EditRows ==
  [allocation_id : AllocationIds \cup {MissingId(AllocationIds)},
   allocated_qty : EditQtys,
   allocation_status : EditStatuses,
   notes : {"edited"}]

\* The tables "Save Overrides" is called with: one row that names any
\* allocation id, stored or not, or up to MaxEdits rows among the allocations
\* of the batch line, as the editor of that line submits them.
OneRowTables == [{1} -> EditRows]

LineTables(batch_line_id) ==
  LET own == {a.allocation_id : a \in Range(AllocRowsOfLine(allocations, batch_line_id))}
  IN {s \in UNION {[1 .. k -> {r \in EditRows : r.allocation_id \in own}] : k \in 2 .. MaxEdits} :
        \A i \in 1 .. (Len(s) - 1) : s[i].allocation_id < s[i + 1].allocation_id}

CreateBatchUpTo(n) ==
  /\ Len(batches) < n
  /\ \E brigade \in BRIGADES, wos \in (SUBSET WorkOrderIds) \ {{}}, submit \in BOOLEAN :
       svc_create_batch(brigade, wos, submit)

CreateBatch == CreateBatchUpTo(MaxBatches)

TransitionBatch ==
  \E b \in BatchIds \cup {MissingId(BatchIds)}, target \in TransitionTargets :
    svc_transition_batch(b, target)

UpdateProcurementLine ==
  \E bl \in BatchLineIds \cup {MissingId(BatchLineIds)},
     details \in ProcurementDetails, new_received \in 0 .. MaxReceived :
    svc_update_procurement_line(bl, details, new_received)

ApplyOneOverride ==
  \E bl \in BatchLineIds \cup {MissingId(BatchLineIds)}, edits \in OneRowTables :
    svc_apply_allocation_override(edits, bl)

ApplyAllocationOverride ==
  \E bl \in BatchLineIds \cup {MissingId(BatchLineIds)} :
    \E edits \in OneRowTables \cup LineTables(bl) :
      svc_apply_allocation_override(edits, bl)

ResetAllocationToAuto ==
  \E bl \in BatchLineIds : svc_reset_allocation_to_auto(bl)

SaveAllocationMode ==
  \E mode \in ALLOCATION_MODES : page_settings_save_mode(mode)

\* the audit log holds at most n rows after the step
AuditWithin(n) == audit_count' <= n

\* Every operation, from the demo data, until the audit log holds MaxAudit rows.
Next ==
  \/ CreateBatch /\ AuditWithin(MaxAudit)
  \/ TransitionBatch /\ AuditWithin(MaxAudit)
  \/ UpdateProcurementLine /\ AuditWithin(MaxAudit)
  \/ ApplyAllocationOverride /\ AuditWithin(MaxAudit)
  \/ ResetAllocationToAuto /\ AuditWithin(MaxAudit)
  \/ SaveAllocationMode /\ AuditWithin(MaxAudit)

Spec == Init /\ [][Next]_vars

\* The batch lifecycle: creation, manual transitions and procurement updates
\* with their derived status, followed up to Closed.
NextLifecycle ==
  \/ CreateBatch /\ AuditWithin(MaxAuditLifecycle)
  \/ TransitionBatch /\ AuditWithin(MaxAuditLifecycle)
  \/ UpdateProcurementLine /\ AuditWithin(MaxAuditLifecycle)

SpecLifecycle == Init /\ [][NextLifecycle]_vars

\* One batch: receipts, single-row overrides and resets.
NextAllocation ==
  \/ CreateBatchUpTo(MaxBatchesAllocation) /\ AuditWithin(MaxAuditAllocation)
  \/ UpdateProcurementLine /\ AuditWithin(MaxAuditAllocation)
  \/ ApplyOneOverride /\ AuditWithin(MaxAuditAllocation)
  \/ ResetAllocationToAuto /\ AuditWithin(MaxAuditAllocation)

SpecAllocation == Init /\ [][NextAllocation]_vars

\* The allocation engine on one batch line. The initial states are those of
\* a batch of both work orders after its creation, its submission and some
\* receipts and manual edits: any received quantity, any allocation mode, any
\* quantities within required and received, overridden or not.
EngineHistory == <<"CREATED", "STATUS_CHANGE", "STATUS_CHANGE", "PROCUREMENT_UPDATE">>

InitEngine ==
  LET wpl0 == svc_derive_wo_part_lines(raw_lines)
      made == NewLinesFor(SetToSortedSeq({r.part_no : r \in Range(wpl0)}), wpl0,
                          _next_id_from_list({}), {}, {},
                          [new_blines |-> <<>>, new_allocs |-> <<>>])
      first == made.new_blines[1].batch_line_id
  IN \E mode \in ALLOCATION_MODES, received \in 0 .. MaxReceivedEngine,
        qty \in [DOMAIN made.new_allocs -> 0 .. MaxReceivedEngine],
        st \in [DOMAIN made.new_allocs -> {"Allocated", "ManualOverride"}] :
       LET allocs == [i \in DOMAIN made.new_allocs |->
                        [made.new_allocs[i] EXCEPT !.allocated_qty = qty[i],
                                                   !.allocation_status = st[i]]]
           lines  == [i \in DOMAIN made.new_blines |->
                        IF made.new_blines[i].batch_line_id = first
                        THEN [made.new_blines[i] EXCEPT !.received_qty = received]
                        ELSE made.new_blines[i]]
       IN /\ \A i \in DOMAIN allocs :
               IF allocs[i].batch_line_id = first
               THEN qty[i] <= RequiredOf(wpl0, allocs[i].line_id)
               ELSE qty[i] = 0 /\ st[i] = "Allocated"
          /\ SeqSum(QtyColumn(AllocRowsOfLine(allocs, first))) <= received
          /\ allocations = allocs
          /\ batch_lines = lines
          /\ batches = <<[batch_id |-> made.new_blines[1].batch_id, brigade |-> "KAMB",
                          batch_status |-> svc_recalc_batch_status(
                                             lines, made.new_blines[1].batch_id)]>>
          /\ wo_part_lines = RefreshPartLines(wpl0, allocs,
                               {a.line_id : a \in Range(AllocRowsOfLine(allocs, first))})
          /\ config = [allocation_mode |-> mode]
          /\ audit_count = Len(EngineHistory)
          /\ audit_new = <<>>
          /\ result = Result("init", TRUE, 0, "", 0, "")

UpdateProcurementLineEngine ==
  \E bl \in BatchLineIds, details \in ProcurementDetails,
     new_received \in 0 .. MaxReceivedEngine :
    svc_update_procurement_line(bl, details, new_received)

NextEngine ==
  \/ UpdateProcurementLineEngine /\ AuditWithin(Len(EngineHistory) + MaxAuditEngine)

SpecEngine == InitEngine /\ [][NextEngine]_vars

\* Resets and receipts from every line state of the two demands.
NextReset ==
  \/ ResetAllocationToAuto /\ AuditWithin(Len(EngineHistory) + MaxAuditReset)
  \/ UpdateProcurementLineEngine /\ AuditWithin(Len(EngineHistory) + MaxAuditReset)

SpecReset == InitEngine /\ [][NextReset]_vars

\* One batch: receipts with changes of the allocation mode between them.
NextMode ==
  \/ CreateBatchUpTo(MaxBatchesAllocation) /\ AuditWithin(MaxAuditMode)
  \/ UpdateProcurementLine /\ AuditWithin(MaxAuditMode)
  \/ SaveAllocationMode /\ AuditWithin(MaxAuditMode)

SpecMode == Init /\ [][NextMode]_vars

\* ------------------------------------------------------------ claims
SumAllocated(allocs, batch_line_id) ==
  SeqSum(QtyColumn(AllocRowsOfLine(allocs, batch_line_id)))

StatusOf(table, batch_id) ==
  (CHOOSE b \in Range(table) : b.batch_id = batch_id).batch_status

\* the lifecycle of section 4.2 of the specification, written as a chain
LifecycleChain ==
  <<"Draft", "Subm to Procurement", "Under Procurement",
    "Partially Received", "Fully Received", "Closed">>

IsSuccessor(current, target) ==
  \E i \in 1 .. (Len(LifecycleChain) - 1) :
    LifecycleChain[i] = current /\ LifecycleChain[i + 1] = target

\* C1: in every reachable state, for every batch line, the sum of
\* allocated_qty over the allocations of the line is at most the line's
\* received_qty.
C1_AllocatedWithinReceived ==
  \A l \in Range(batch_lines) :
    SumAllocated(allocations, l.batch_line_id) <= l.received_qty

\* C2: after every operation, every work-order part line that some
\* allocation references has received_qty equal to the sum of allocated_qty
\* over all allocations that reference it, on whatever batch line.
C2_PartLineReceivedIsAllocated ==
  \A p \in Range(wo_part_lines) :
    (\E a \in Range(allocations) : a.line_id = p.line_id) =>
      p.received_qty =
        SeqSum(QtyColumn(SelectSeq(allocations, LAMBDA a : a.line_id = p.line_id)))

\* C3: in every reachable state every allocation has
\* 0 <= allocated_qty <= required_qty of the part line it references.
C3_AllocationWithinRequired ==
  \A a \in Range(allocations) :
    /\ 0 <= a.allocated_qty
    /\ a.allocated_qty <= RequiredOf(wo_part_lines, a.line_id)

\* C4: a transitionBatch call on a stored batch succeeds iff the target is
\* the successor of the current status in the chain Draft .. Closed; then the
\* status becomes the target, and otherwise it is unchanged.
C4_TransitionIffSuccessor ==
  [][\A b \in BatchIds, t \in TransitionTargets :
       svc_transition_batch(b, t) =>
         /\ result'.ok <=> IsSuccessor(StatusOf(batches, b), t)
         /\ StatusOf(batches', b) =
              IF IsSuccessor(StatusOf(batches, b), t) THEN t ELSE StatusOf(batches, b)]_vars

\* witness of C4: a transition was refused on a batch that is Closed
C4_Witness ==
  /\ result.op = "transition" /\ ~result.ok /\ result.why = "cannot transition"
  /\ batches # <<>>
  /\ \A b \in Range(batches) : b.batch_status = "Closed"

\* C5: a transitionBatch call with target Fully Received is rejected, with
\* the batch status and the audit log unchanged, whenever a batch line of the
\* batch has received_qty < total_required_qty.
C5_FullyReceivedNeedsEveryLine ==
  [][\A b \in BatchIds :
       ( /\ svc_transition_batch(b, "Fully Received")
         /\ \E l \in Range(batch_lines) :
              l.batch_id = b /\ l.received_qty < l.total_required_qty )
       => /\ ~result'.ok
          /\ batches' = batches
          /\ audit_count' = audit_count
          /\ audit_new' = <<>>]_vars

\* C6: once a batch is Closed its status never changes again, and every
\* updateProcurementLine on one of its batch lines is rejected with the batch
\* lines unchanged.
C6_ClosedIsTerminal ==
  [][/\ \A i \in DOMAIN batches :
          batches[i].batch_status = "Closed" => batches'[i].batch_status = "Closed"
     /\ \A l \in Range(batch_lines), d \in ProcurementDetails, n \in 0 .. MaxReceived :
          ( /\ StatusOf(batches, l.batch_id) = "Closed"
            /\ svc_update_procurement_line(l.batch_line_id, d, n) )
          => ~result'.ok /\ batch_lines' = batch_lines]_vars

\* witness of C6: a procurement update was refused because the batch is Closed
C6_Witness ==
  /\ result.op = "update" /\ ~result.ok /\ result.why = "closed"
  /\ \E b \in Range(batches) : b.batch_status = "Closed"

\* C7: a procurement update never lowers the allocated_qty of a
\* ManualOverride allocation: when the received quantity of its batch line
\* goes down the allocation keeps its quantity, also when the other rows
\* cannot absorb the reduction, and the update is accepted whenever the new
\* received quantity is not below the allocated total of a batch not Closed.
C7_EngineKeepsManualOverride ==
  [][/\ \A l \in Range(batch_lines), d \in ProcurementDetails, n \in 0 .. MaxReceived :
          svc_update_procurement_line(l.batch_line_id, d, n) =>
            /\ \A i \in DOMAIN allocations :
                 allocations[i].allocation_status = "ManualOverride" =>
                   IF allocations[i].batch_line_id = l.batch_line_id /\ n < l.received_qty
                   THEN allocations'[i].allocated_qty = allocations[i].allocated_qty
                   ELSE allocations'[i].allocated_qty >= allocations[i].allocated_qty
            /\ ( /\ n >= SumAllocated(allocations, l.batch_line_id)
                 /\ StatusOf(batches, l.batch_id) # "Closed" ) => result'.ok]_vars

\* witness of C7: received went from 2 to 1 on a line whose allocations are
\* all ManualOverride and hold 1 unit: nothing could be removed, no error
C7_Witness ==
  /\ result.op = "update" /\ result.ok
  /\ Len(audit_new) >= 1
  /\ audit_new[1].action = "PROCUREMENT_UPDATE"
  /\ audit_new[1].old_value = "received=2"
  /\ audit_new[1].new_value = "received=1"
  /\ \A a \in Range(AllocRowsOfLine(allocations, audit_new[1].entity_id)) :
       a.allocation_status = "ManualOverride"
  /\ SumAllocated(allocations, audit_new[1].entity_id) = 1

\* C8 as claimed: an allocation that is ManualOverride changes to another
\* status only through resetAllocationToAuto.
C8_OnlyResetClearsOverride ==
  [][\A i \in DOMAIN allocations :
       ( /\ allocations[i].allocation_status = "ManualOverride"
         /\ allocations'[i].allocation_status # "ManualOverride" )
       => result'.op = "reset"]_vars

\* C8 as amended: a ManualOverride allocation keeps its status across
\* createBatch, transitionBatch, updateProcurementLine and the mode setting;
\* it changes only through resetAllocationToAuto on its batch line (to
\* Allocated), or through an applyAllocationOverride row that names it with
\* its stored quantity.
C8_OverrideClearedByResetOrEdit ==
  [][\A i \in DOMAIN allocations :
       ( /\ allocations[i].allocation_status = "ManualOverride"
         /\ allocations'[i].allocation_status # "ManualOverride" )
       => \/ /\ result'.op = "reset"
             /\ audit_new'[1].entity_id = allocations[i].batch_line_id
             /\ allocations'[i].allocation_status = "Allocated"
          \/ /\ result'.op = "override"
             /\ allocations'[i].allocated_qty = allocations[i].allocated_qty
             /\ \E k \in DOMAIN audit_new' :
                  /\ audit_new'[k].action = "OVERRIDE"
                  /\ audit_new'[k].entity_id = allocations[i].allocation_id
                  /\ audit_new'[k].old_value = audit_new'[k].new_value]_vars

\* witness of C8: an allocation holds -1, which only an override that changed
\* its quantity (and so made it ManualOverride) can have stored, and the last
\* override named it with that quantity and left it Packed
C8_Witness ==
  /\ result.op = "override" /\ result.ok
  /\ \E a \in Range(allocations) :
       /\ a.allocated_qty = -1
       /\ a.allocation_status = "Packed"
       /\ \E k \in DOMAIN audit_new :
            /\ audit_new[k].entity_id = a.allocation_id
            /\ audit_new[k].old_value = "qty=-1"
            /\ audit_new[k].new_value = "qty=-1"

\* C9: an updateProcurementLine call whose new received quantity is below
\* the allocated total of the batch line, or whose batch is Closed, is
\* rejected and leaves batch lines, allocations, part lines, batches and the
\* audit log as they were.
C9_RejectedUpdateChangesNothing ==
  [][\A l \in Range(batch_lines), d \in ProcurementDetails, n \in 0 .. MaxReceived :
       ( /\ svc_update_procurement_line(l.batch_line_id, d, n)
         /\ \/ n < SumAllocated(allocations, l.batch_line_id)
            \/ StatusOf(batches, l.batch_id) = "Closed" )
       => /\ ~result'.ok
          /\ UNCHANGED <<batch_lines, allocations, wo_part_lines, batches, audit_count>>
          /\ audit_new' = <<>>]_vars

\* witness of C9: an update was refused for a quantity below the allocated total
C9_Witness ==
  /\ result.op = "update" /\ ~result.ok /\ result.why = "below allocated"
  /\ \E l \in Range(batch_lines) : SumAllocated(allocations, l.batch_line_id) > 0

\* C10: a rejected applyAllocationOverride call leaves every allocation,
\* every part line and the audit log as they were.
C10_RejectedOverrideChangesNothing ==
  [][(result'.op = "override" /\ ~result'.ok)
       => /\ UNCHANGED <<allocations, wo_part_lines, audit_count>>
          /\ audit_new' = <<>>]_vars

\* a part line is linked to an active batch: some allocation references it
\* on a batch line of a batch that is Draft, Subm to Procurement, Under
\* Procurement or Partially Received
LinkedToActiveBatch(line_id) ==
  \E a \in Range(allocations), l \in Range(batch_lines), b \in Range(batches) :
    /\ a.line_id = line_id
    /\ a.batch_line_id = l.batch_line_id
    /\ l.batch_id = b.batch_id
    /\ b.batch_status \in {"Draft", "Subm to Procurement", "Under Procurement",
                           "Partially Received"}

\* C11: createBatch is rejected when a selected work order is of another
\* brigade than the declared one, or when a part line of the selected work
\* orders is linked to an active batch; then no batch, batch line, allocation
\* or audit entry is written.
C11_CreateBatchRejectedAtomically ==
  [][\A brigade \in BRIGADES, wos \in (SUBSET WorkOrderIds) \ {{}}, submit \in BOOLEAN :
       ( /\ svc_create_batch(brigade, wos, submit)
         /\ \/ \E w \in wos : WorkOrderOf(w).brigade # brigade
            \/ \E p \in Range(wo_part_lines) :
                 p.wo_id \in wos /\ LinkedToActiveBatch(p.line_id) )
       => /\ ~result'.ok
          /\ UNCHANGED <<batches, batch_lines, allocations, audit_count>>
          /\ audit_new' = <<>>]_vars

\* witness of C11: a creation was refused for part lines of an active batch
C11_Witness ==
  /\ result.op = "create" /\ ~result.ok /\ result.why = "duplicate"
  /\ \E p \in Range(wo_part_lines) : LinkedToActiveBatch(p.line_id)

\* C12: transitionBatch on a missing batch, updateProcurementLine on a
\* missing batch line, and applyAllocationOverride on a missing batch line or
\* with an edit row naming a missing allocation, all report a failure and
\* change no table and no audit entry.
C12_MissingIdIsReportedAndInert ==
  [][/\ \A b \in {MissingId(BatchIds)}, t \in TransitionTargets :
          svc_transition_batch(b, t) =>
            ~result'.ok /\ UNCHANGED <<batches, audit_count>> /\ audit_new' = <<>>
     /\ \A bl \in {MissingId(BatchLineIds)}, d \in ProcurementDetails, n \in 0 .. MaxReceived :
          svc_update_procurement_line(bl, d, n) =>
            /\ ~result'.ok
            /\ UNCHANGED <<batches, batch_lines, allocations, wo_part_lines, audit_count>>
            /\ audit_new' = <<>>
     /\ \A bl \in BatchLineIds \cup {MissingId(BatchLineIds)} :
          \A edits \in OneRowTables \cup LineTables(bl) :
            ( /\ svc_apply_allocation_override(edits, bl)
              /\ \/ bl \notin BatchLineIds
                 \/ \E i \in DOMAIN edits : edits[i].allocation_id \notin AllocationIds )
            => /\ ~result'.ok
               /\ UNCHANGED <<allocations, wo_part_lines, audit_count>>
               /\ audit_new' = <<>>]_vars

\* the allocation policy of section 4.3 of the specification: by priority
\* (Critical, High, Normal) then oldest work order first, or oldest first only
PolicyRank == [Critical |-> 1, High |-> 2, Normal |-> 3]

PolicyBefore(mode, a, b) ==
  LET wa == WorkOrderOf(a.wo_id)
      wb == WorkOrderOf(b.wo_id)
  IN IF mode = "FIFO"
     THEN wa.created_date < wb.created_date
     ELSE \/ PolicyRank[wa.priority] < PolicyRank[wb.priority]
          \/ /\ PolicyRank[wa.priority] = PolicyRank[wb.priority]
             /\ wa.created_date < wb.created_date

OnLine(batch_line_id) ==
  {i \in DOMAIN allocations : allocations[i].batch_line_id = batch_line_id}

OutstandingOf(i) ==
  Clip0(RequiredOf(wo_part_lines, allocations[i].line_id) - allocations[i].allocated_qty)

\* the example of section 4.3: WO-A Critical requires 20, WO-B Normal requires 10
ScenarioPartLines ==
  svc_derive_wo_part_lines(
    << [line_id |-> 1, wo_id |-> 1, part_no |-> 1, required_qty |-> 20, received_qty |-> 0],
       [line_id |-> 2, wo_id |-> 2, part_no |-> 1, required_qty |-> 10, received_qty |-> 0] >>)

ScenarioAllocations ==
  << [allocation_id |-> 1, batch_line_id |-> 1, wo_id |-> 1, line_id |-> 1,
      allocated_qty |-> 0, allocation_status |-> "Allocated", notes |-> ""],
     [allocation_id |-> 2, batch_line_id |-> 1, wo_id |-> 2, line_id |-> 2,
      allocated_qty |-> 0, allocation_status |-> "Allocated", notes |-> ""] >>

ScenarioAfter15 ==
  svc_run_allocation_engine(ScenarioAllocations, ScenarioPartLines,
                            "Priority First then FIFO", 1, 15, 0)

ScenarioAfter25 ==
  svc_run_allocation_engine(ScenarioAfter15.allocations, ScenarioAfter15.wo_part_lines,
                            "Priority First then FIFO", 1, 25, 15)

ScenarioAfter17 ==
  svc_run_allocation_engine(ScenarioAfter25.allocations, ScenarioAfter25.wo_part_lines,
                            "Priority First then FIFO", 1, 17, 25)

\* C13: on a positive delta d the rows of the batch line gain, in policy
\* order, min(outstanding, remaining): the total added is min(d, sum of
\* outstanding), a row gains only if every earlier row ends at its required
\* quantity or above, no row gains more than its outstanding quantity, and
\* the other allocations are untouched. Receipts 15 then +10 for required
\* 20 and 10 end at 20 and 5.
C13_PositiveDeltaFillsInOrder ==
  [][/\ QtyColumn(ScenarioAfter15.allocations) = <<15, 0>>
     /\ QtyColumn(ScenarioAfter25.allocations) = <<20, 5>>
     /\ \A l \in Range(batch_lines), d \in ProcurementDetails, n \in 0 .. MaxReceivedEngine :
          ( /\ svc_update_procurement_line(l.batch_line_id, d, n)
            /\ result'.ok
            /\ n > l.received_qty
            /\ config.allocation_mode # "Manual Only" )
          => LET rows == OnLine(l.batch_line_id) IN
             /\ SeqSum([i \in DOMAIN allocations |->
                          IF i \in rows
                          THEN allocations'[i].allocated_qty - allocations[i].allocated_qty
                          ELSE 0])
                  = Min(n - l.received_qty,
                        SeqSum([i \in DOMAIN allocations |->
                                  IF i \in rows THEN OutstandingOf(i) ELSE 0]))
             /\ \A i \in rows :
                  allocations'[i].allocated_qty - allocations[i].allocated_qty
                    \in 0 .. OutstandingOf(i)
             /\ \A i \in rows, j \in rows :
                  ( /\ PolicyBefore(config.allocation_mode, allocations[i], allocations[j])
                    /\ allocations'[j].allocated_qty > allocations[j].allocated_qty )
                  => allocations'[i].allocated_qty
                       >= RequiredOf(wo_part_lines, allocations[i].line_id)
             /\ \A i \in DOMAIN allocations \ rows : allocations'[i] = allocations[i]]_vars

\* witness of C13: received went from 1 to 3 by priority; the Critical work
\* order is full at 2 and the Normal one got the unit that was left
C13_Witness ==
  /\ result.op = "update" /\ result.ok
  /\ config.allocation_mode = "Priority First then FIFO"
  /\ Len(audit_new) >= 1
  /\ audit_new[1].old_value = "received=1"
  /\ audit_new[1].new_value = "received=3"
  /\ \E a \in Range(allocations), b \in Range(allocations) :
       /\ a.batch_line_id = audit_new[1].entity_id
       /\ b.batch_line_id = audit_new[1].entity_id
       /\ WorkOrderOf(a.wo_id).priority = "Critical" /\ a.allocated_qty = 2
       /\ WorkOrderOf(b.wo_id).priority = "Normal" /\ b.allocated_qty = 1

\* C14: on a negative delta the rows of the batch line that are not
\* ManualOverride lose, in reverse policy order, min(allocated, still to
\* remove): the total removed is min(|delta|, sum of their quantities), a row
\* loses only if every later such row ends at 0, ManualOverride rows and the
\* other allocations are untouched. From 20 and 5, a reduction by 8 ends at
\* 17 and 0.
C14_NegativeDeltaRemovesInReverse ==
  [][/\ QtyColumn(ScenarioAfter17.allocations) = <<17, 0>>
     /\ \A l \in Range(batch_lines), d \in ProcurementDetails, n \in 0 .. MaxReceivedEngine :
          ( /\ svc_update_procurement_line(l.batch_line_id, d, n)
            /\ result'.ok
            /\ n < l.received_qty
            /\ config.allocation_mode # "Manual Only" )
          => LET rows == OnLine(l.batch_line_id)
                 free == {i \in rows : allocations[i].allocation_status # "ManualOverride"}
             IN
             /\ SeqSum([i \in DOMAIN allocations |->
                          IF i \in free
                          THEN allocations[i].allocated_qty - allocations'[i].allocated_qty
                          ELSE 0])
                  = Min(l.received_qty - n,
                        SeqSum([i \in DOMAIN allocations |->
                                  IF i \in free THEN allocations[i].allocated_qty ELSE 0]))
             /\ \A i \in free :
                  allocations'[i].allocated_qty \in 0 .. allocations[i].allocated_qty
             /\ \A i \in free, j \in free :
                  ( /\ PolicyBefore(config.allocation_mode, allocations[i], allocations[j])
                    /\ allocations'[i].allocated_qty < allocations[i].allocated_qty )
                  => allocations'[j].allocated_qty = 0
             /\ \A i \in DOMAIN allocations \ free : allocations'[i] = allocations[i]]_vars

\* witness of C14: received went from 4 to 3 by priority with nothing
\* overridden; the Normal work order lost its unit, the Critical one keeps 2
C14_Witness ==
  /\ result.op = "update" /\ result.ok
  /\ config.allocation_mode = "Priority First then FIFO"
  /\ Len(audit_new) >= 1
  /\ audit_new[1].old_value = "received=4"
  /\ audit_new[1].new_value = "received=3"
  /\ \A a \in Range(AllocRowsOfLine(allocations, audit_new[1].entity_id)) :
       /\ a.allocation_status = "Allocated"
       /\ WorkOrderOf(a.wo_id).priority = "Critical" => a.allocated_qty = 2
       /\ WorkOrderOf(a.wo_id).priority = "Normal" => a.allocated_qty = 0
  /\ AllocRowsOfLine(allocations, audit_new[1].entity_id) # <<>>

\* C15: on a batch line without ManualOverride rows, a delta of +d followed
\* by a delta of -d in the same mode gives every allocation the quantity it
\* had before.
C15_PlusThenMinusRestores ==
  \A l \in Range(batch_lines) :
    (\A a \in Range(AllocRowsOfLine(allocations, l.batch_line_id)) :
       a.allocation_status # "ManualOverride")
    => \A d \in 1 .. MaxReceivedEngine :
         LET up   == svc_run_allocation_engine(allocations, wo_part_lines,
                       config.allocation_mode, l.batch_line_id,
                       l.received_qty + d, l.received_qty)
             down == svc_run_allocation_engine(up.allocations, up.wo_part_lines,
                       config.allocation_mode, l.batch_line_id,
                       l.received_qty, l.received_qty + d)
         IN QtyColumn(down.allocations) = QtyColumn(allocations)

\* C16: while the mode is Manual Only an accepted procurement update stores
\* the new received quantity on the batch line and leaves every allocation
\* and the received quantity of every part line as they were.
C16_ManualOnlyLeavesAllocations ==
  [][\A l \in Range(batch_lines), d \in ProcurementDetails, n \in 0 .. MaxReceivedEngine :
       ( /\ svc_update_procurement_line(l.batch_line_id, d, n)
         /\ result'.ok
         /\ config.allocation_mode = "Manual Only" )
       => /\ allocations' = allocations
          /\ \A i \in DOMAIN wo_part_lines :
               wo_part_lines'[i].received_qty = wo_part_lines[i].received_qty
          /\ \E k \in DOMAIN batch_lines' :
               /\ batch_lines'[k].batch_line_id = l.batch_line_id
               /\ batch_lines'[k].received_qty = n]_vars

\* witness of C16: in Manual Only the received quantity went from 0 to 4 and
\* every allocation of the line is still 0
C16_Witness ==
  /\ result.op = "update" /\ result.ok
  /\ config.allocation_mode = "Manual Only"
  /\ Len(audit_new) >= 1
  /\ audit_new[1].old_value = "received=0"
  /\ audit_new[1].new_value = "received=4"
  /\ AllocRowsOfLine(allocations, audit_new[1].entity_id) # <<>>
  /\ SumAllocated(allocations, audit_new[1].entity_id) = 0
  /\ \E a \in Range(AllocRowsOfLine(allocations, audit_new[1].entity_id)) :
       RequiredOf(wo_part_lines, a.line_id) > 0

ReceivedTotal(table, batch_id) ==
  LET lines == SelectSeq(table, LAMBDA l : l.batch_id = batch_id)
  IN SeqSum([i \in DOMAIN lines |-> lines[i].received_qty])

RequiredTotal(table, batch_id) ==
  LET lines == SelectSeq(table, LAMBDA l : l.batch_id = batch_id)
  IN SeqSum([i \in DOMAIN lines |-> lines[i].total_required_qty])

BatchOfLine(table, batch_line_id) ==
  (CHOOSE l \in Range(table) : l.batch_line_id = batch_line_id).batch_id

ReceivingStatuses ==
  {"Under Procurement", "Partially Received", "Fully Received"}

\* C17: after every accepted updateProcurementLine on a batch whose status
\* before the call is Under Procurement, Partially Received or Fully
\* Received, the batch status is Under Procurement if the received total of
\* its lines is 0, otherwise Fully Received if that total is at least the
\* required total of its lines, otherwise Partially Received.
C17_StatusFollowsReceivedTotals ==
  [][\A bl \in BatchLineIds, details \in ProcurementDetails,
        new_received \in 0 .. MaxReceived :
       (/\ svc_update_procurement_line(bl, details, new_received)
        /\ result'.ok
        /\ StatusOf(batches, BatchOfLine(batch_lines, bl)) \in ReceivingStatuses)
       => LET b   == BatchOfLine(batch_lines, bl)
              rec == ReceivedTotal(batch_lines', b)
              req == RequiredTotal(batch_lines', b)
          IN StatusOf(batches', b) =
               IF rec = 0 THEN "Under Procurement"
               ELSE IF rec >= req THEN "Fully Received"
               ELSE "Partially Received"]_vars

\* an accepted update has just moved a batch to Fully Received with the
\* received total equal to the required total
C17_Witness ==
  /\ result.op = "update"
  /\ result.ok
  /\ \E r \in Range(audit_new), b \in Range(batches) :
       /\ r.action = "STATUS_AUTO"
       /\ r.entity_id = b.batch_id
       /\ r.new_value = "Fully Received"
       /\ b.batch_status = "Fully Received"
       /\ ReceivedTotal(batch_lines, b.batch_id) = RequiredTotal(batch_lines, b.batch_id)

\* C18: an updateProcurementLine call on a line of a batch that is Draft,
\* Subm to Procurement or Closed, for any received quantity, leaves the
\* batch status as it was and appends no audit entry about a batch.
C18_RecomputeSparesDraftSubmittedClosed ==
  [][\A bl \in BatchLineIds, details \in ProcurementDetails,
        new_received \in 0 .. MaxReceived :
       (/\ svc_update_procurement_line(bl, details, new_received)
        /\ StatusOf(batches, BatchOfLine(batch_lines, bl)) \notin ReceivingStatuses)
       => /\ batches' = batches
          /\ \A r \in Range(audit_new') : r.entity_type # "Batch"]_vars

\* an accepted update has stored a received quantity on a line of a batch
\* that is still Draft or Subm to Procurement
C18_Witness ==
  /\ result.op = "update"
  /\ result.ok
  /\ \E b \in Range(batches) :
       /\ b.batch_status \in {"Draft", "Subm to Procurement"}
       /\ \E l \in Range(batch_lines) :
            /\ l.batch_id = b.batch_id
            /\ \E r \in Range(audit_new) :
                 r.action = "PROCUREMENT_UPDATE" /\ r.entity_id = l.batch_line_id
            /\ l.received_qty > 0
            /\ ReceivedTotal(batch_lines, b.batch_id) >= RequiredTotal(batch_lines, b.batch_id)

\* the positions of the rows of an operation's audit entries that record a
\* status of the batch
StatusEntries(rows, batch_id) ==
  {i \in DOMAIN rows :
     /\ rows[i].entity_type = "Batch"
     /\ rows[i].entity_id = batch_id
     /\ rows[i].action \in {"STATUS_CHANGE", "STATUS_AUTO"}}

\* C19: in every operation, a batch whose status changes gets exactly one
\* audit entry of that operation, which holds the old and the new status and
\* whose action is STATUS_CHANGE when the operation is a transition and
\* STATUS_AUTO when it is the recomputation of a procurement update; a batch
\* whose status does not change (a rejected transition, a recomputation that
\* yields the current status) gets no such entry.
C19_StatusChangeHasOneAuditEntry ==
  [][\A b \in Range(batches) :
       LET old     == b.batch_status
           new     == StatusOf(batches', b.batch_id)
           entries == StatusEntries(audit_new', b.batch_id)
       IN IF new # old
          THEN /\ Cardinality(entries) = 1
               /\ result'.op \in {"transition", "update"}
               /\ \A i \in entries :
                    /\ audit_new'[i].old_value = old
                    /\ audit_new'[i].new_value = new
                    /\ audit_new'[i].action =
                         IF result'.op = "transition" THEN "STATUS_CHANGE"
                         ELSE "STATUS_AUTO"
          ELSE entries = {}]_vars

\* a procurement update has just changed a batch's status and recorded it
C19_Witness ==
  /\ result.op = "update"
  /\ result.ok
  /\ \E b \in Range(batches) :
       /\ Cardinality(StatusEntries(audit_new, b.batch_id)) = 1
       /\ \A i \in StatusEntries(audit_new, b.batch_id) :
            /\ audit_new[i].action = "STATUS_AUTO"
            /\ audit_new[i].old_value # audit_new[i].new_value
            /\ audit_new[i].new_value = b.batch_status

\* the edits of an override table that name a stored allocation
AppliedEdits(edits) ==
  {i \in DOMAIN edits : edits[i].allocation_id \in AllocationIds}

AggregatedPartLines(wos) ==
  SelectSeq(wo_part_lines,
            LAMBDA p : /\ p.wo_id \in wos
                       /\ p.line_status # "Ready"
                       /\ ~LinkedToActiveBatch(p.line_id))

\* the batch lines and allocations that the step has added
NewBatchLines == {l \in Range(batch_lines') : l \notin Range(batch_lines)}
NewAllocations == {a \in Range(allocations') : a \notin Range(allocations)}

\* C21: a successful createBatch creates exactly one batch line per
\* distinct part number among the aggregated part lines, with
\* total_required_qty the sum of their outstanding quantities and
\* received_qty 0, and exactly one allocation (quantity 0, status Allocated)
\* per aggregated part line, linked to the batch line of its part number.
C21_OneLinePerPartOneAllocationPerPartLine ==
  [][\A brigade \in BRIGADES, wos \in (SUBSET WorkOrderIds) \ {{}}, submit \in BOOLEAN :
       (svc_create_batch(brigade, wos, submit) /\ result'.ok)
       => LET agg   == AggregatedPartLines(wos)
              parts == {p.part_no : p \in Range(agg)}
          IN /\ Cardinality(NewBatchLines) = Cardinality(parts)
             /\ \A part_no \in parts :
                  \E l \in NewBatchLines :
                    LET group == SelectSeq(agg, LAMBDA p : p.part_no = part_no)
                    IN /\ l.part_no = part_no
                       /\ l.received_qty = 0
                       /\ l.total_required_qty =
                            SeqSum([i \in DOMAIN group |-> group[i].outstanding_qty])
             /\ Cardinality(NewAllocations) = Len(agg)
             /\ \A p \in Range(agg) :
                  \E a \in NewAllocations, l \in NewBatchLines :
                    /\ a.line_id = p.line_id
                    /\ a.allocated_qty = 0
                    /\ a.allocation_status = "Allocated"
                    /\ a.batch_line_id = l.batch_line_id
                    /\ l.part_no = p.part_no]_vars

\* C22: after a successful createBatch no allocation of the new batch
\* references a part line that was Ready (received_qty >= required_qty)
\* when the batch was created.
C22_NoAllocationForReadyPartLine ==
  [][\A brigade \in BRIGADES, wos \in (SUBSET WorkOrderIds) \ {{}}, submit \in BOOLEAN :
       (svc_create_batch(brigade, wos, submit) /\ result'.ok)
       => \A a \in NewAllocations, p \in Range(wo_part_lines) :
            a.line_id = p.line_id
            => (p.line_status # "Ready" /\ p.received_qty < p.required_qty)]_vars

NewBatches == {b \in Range(batches') : b.batch_id \notin BatchIds}

\* C23: a batch created by createBatch starts in Subm to Procurement when
\* submit_immediately is true and in Draft otherwise, and a successful
\* createBatch appends exactly one audit entry, the creation summary of the
\* new batch.
C23_InitialStatusAndOneCreationEntry ==
  [][\A brigade \in BRIGADES, wos \in (SUBSET WorkOrderIds) \ {{}}, submit \in BOOLEAN :
       (svc_create_batch(brigade, wos, submit) /\ result'.ok)
       => /\ Cardinality(NewBatches) = 1
          /\ \A b \in NewBatches :
               /\ b.batch_status = IF submit THEN "Subm to Procurement" ELSE "Draft"
               /\ Len(audit_new') = 1
               /\ audit_count' = audit_count + 1
               /\ audit_new'[1].entity_type = "Batch"
               /\ audit_new'[1].entity_id = b.batch_id
               /\ audit_new'[1].action = "CREATED"
               /\ audit_new'[1].new_value =
                    "brigade=" \o brigade \o " WOs=" \o ToString(wos)
                      \o " status=" \o b.batch_status]_vars

\* a batch has just been created and submitted at once
C23_Witness ==
  /\ result.op = "create"
  /\ result.ok
  /\ Len(audit_new) = 1
  /\ audit_new[1].action = "CREATED"
  /\ \E b \in Range(batches) :
       /\ b.batch_id = audit_new[1].entity_id
       /\ b.batch_status = "Subm to Procurement"

\* C24: in every reachable state each batch has one brigade, and every
\* allocation on a batch line of the batch references a work order of that
\* brigade.
C24_BatchOfOneBrigade ==
  \A b \in Range(batches) :
    /\ b.brigade \in BRIGADES
    /\ \A l \in Range(batch_lines), a \in Range(allocations) :
         (l.batch_id = b.batch_id /\ a.batch_line_id = l.batch_line_id)
         => /\ \E r \in Range(work_orders) : r.wo_id = a.wo_id
            /\ WorkOrderOf(a.wo_id).brigade = b.brigade

\* a batch holds allocations of two work orders
C24_Witness ==
  \E b \in Range(batches), l1, l2 \in Range(batch_lines), a1, a2 \in Range(allocations) :
    /\ l1.batch_id = b.batch_id /\ a1.batch_line_id = l1.batch_line_id
    /\ l2.batch_id = b.batch_id /\ a2.batch_line_id = l2.batch_line_id
    /\ a1.wo_id # a2.wo_id
    /\ WorkOrderOf(a1.wo_id).brigade = b.brigade
    /\ WorkOrderOf(a2.wo_id).brigade = b.brigade

IdsAreDistinct(ids) ==
  \A i, j \in DOMAIN ids : i # j => ids[i] # ids[j]

\* sequence numbers around the width of the padding
IdProbes == {1, 9, 10, 999, 9999, 10000}

\* the next id is the prefix followed by the largest stored suffix plus one
\* (1 when none is stored), and it is not a stored id
NextIdIsFresh(prefix, numbers) ==
  LET stored == {IdText(prefix, n) : n \in numbers}
      next   == dl_next_id(prefix, stored)
  IN /\ Cardinality(stored) = Cardinality(numbers)
     /\ next \notin stored
     /\ next = IdText(prefix,
                      IF numbers = {} THEN 1
                      ELSE (CHOOSE m \in numbers : \A n \in numbers : n <= m) + 1)
     /\ StripPrefix(prefix, next) = PadLeft(Decimal(ValueOf(StripPrefix(prefix, next))), IdWidth)

\* C25: in every reachable state the ids of each collection are pairwise
\* distinct, batch-line and allocation ids minted by one createBatch
\* included; the next id of a collection is the prefix followed by the
\* largest stored numeric suffix plus one, or 1 when none is stored, and is
\* not a stored id; the audit entries of an operation carry distinct ids
\* that follow the ids of the entries already present.
C25_IdentifiersAreUnique ==
  /\ IdsAreDistinct([i \in DOMAIN batches |-> batches[i].batch_id])
  /\ IdsAreDistinct([i \in DOMAIN batch_lines |-> batch_lines[i].batch_line_id])
  /\ IdsAreDistinct([i \in DOMAIN allocations |-> allocations[i].allocation_id])
  /\ IdsAreDistinct([i \in DOMAIN audit_new |-> audit_new[i].audit_id])
  /\ \A i \in DOMAIN audit_new :
       audit_new[i].audit_id = audit_count - Len(audit_new) + i
  /\ NextIdIsFresh(<<"B", "A", "T", "C", "H">>, BatchIds)
  /\ NextIdIsFresh(<<"B", "L">>, BatchLineIds)
  /\ NextIdIsFresh(<<"A", "L", "L", "O", "C">>, AllocationIds)
  /\ NextIdIsFresh(<<"A", "U", "D">>, 1 .. audit_count)
  /\ \A n \in IdProbes : NextIdIsFresh(<<"B", "L">>, {n})

\* two batches have been created, one of them with two batch lines
C25_Witness ==
  /\ Len(batches) = 2
  /\ Len(batch_lines) >= 3
  /\ Len(allocations) >= 3
  /\ audit_count >= 2
  /\ \E l1, l2 \in Range(batch_lines) :
       l1.batch_id = l2.batch_id /\ l1.batch_line_id # l2.batch_line_id

\* the quantity held by the rows of the batch line that are not ManualOverride
FreeAllocated(allocs, batch_line_id) ==
  LET rows == SelectSeq(allocs, LAMBDA a : /\ a.batch_line_id = batch_line_id
                                           /\ a.allocation_status # "ManualOverride")
  IN SeqSum(QtyColumn(rows))

\* C26: whenever updateProcurementLine accepts a reduction of received_qty
\* in an automatic mode, the rows of the line that are not ManualOverride
\* lose the full amount of the reduction.
C26_AcceptedReductionIsRemovedInFull ==
  [][\A l \in Range(batch_lines), d \in ProcurementDetails, n \in 0 .. MaxReceivedEngine :
       ( /\ svc_update_procurement_line(l.batch_line_id, d, n)
         /\ result'.ok
         /\ n < l.received_qty
         /\ config.allocation_mode # "Manual Only" )
       => FreeAllocated(allocations, l.batch_line_id)
            - FreeAllocated(allocations', l.batch_line_id)
          = l.received_qty - n]_vars

\* the ranks of section 4.3 of the specification
SpecifiedRank(priority) ==
  CASE priority = "Critical" -> 0
    [] priority = "High"     -> 1
    [] priority = "Normal"   -> 2
    [] OTHER                 -> 9

ProbePriorities == {"Critical", "High", "Normal", "Low", ""}
ProbeDates == {1, 2}

\* a merged row of the engine for a work order of the given priority and date
ProbeRow(pos, priority, created_date) ==
  [allocation_id |-> pos, line_id |-> pos, allocation_status |-> "Allocated",
   allocated_qty |-> 0, pos |-> pos, prank |-> PriorityRank(priority),
   created_date |-> created_date, outstanding |-> 1]

\* the allocation of the batch line that the mode serves first among those
\* with an outstanding quantity
ServedFirst(mode, batch_line_id, i) ==
  /\ i \in OnLine(batch_line_id)
  /\ OutstandingOf(i) > 0
  /\ \A j \in OnLine(batch_line_id) :
       (j # i /\ OutstandingOf(j) > 0)
       => PolicyBefore(mode, allocations[i], allocations[j])

\* C27: in mode "Priority First then FIFO" the engine orders the rows by
\* priority rank (Critical 0, High 1, Normal 2, any other value 9) and then
\* by created_date, so that a Critical work order is served before a High
\* or Normal one whatever the dates; in mode "FIFO" it orders them by
\* created_date only, so that an older Normal work order is served before a
\* newer Critical one.
C27_OrderByPriorityThenDateOrByDate ==
  /\ \A p \in ProbePriorities : PriorityRank(p) = SpecifiedRank(p)
  /\ \A pa, pb \in ProbePriorities, da, db \in ProbeDates :
       LET rows   == <<ProbeRow(1, pa, da), ProbeRow(2, pb, db)>>
           byRank == SortRows("Priority First then FIFO", rows)
           byDate == SortRows("FIFO", rows)
       IN /\ Len(byRank) = 2 /\ Len(byDate) = 2
          /\ SpecifiedRank(pa) < SpecifiedRank(pb) => byRank = rows
          /\ SpecifiedRank(pb) < SpecifiedRank(pa) => byRank = <<rows[2], rows[1]>>
          /\ (SpecifiedRank(pa) = SpecifiedRank(pb) /\ da < db) => byRank = rows
          /\ (SpecifiedRank(pa) = SpecifiedRank(pb) /\ db < da) => byRank = <<rows[2], rows[1]>>
          /\ da < db => byDate = rows
          /\ db < da => byDate = <<rows[2], rows[1]>>
  /\ \A l \in Range(batch_lines), mode \in {"Priority First then FIFO", "FIFO"} :
       \A i \in DOMAIN allocations :
         ServedFirst(mode, l.batch_line_id, i)
         => svc_run_allocation_engine(allocations, wo_part_lines, mode, l.batch_line_id,
                                      l.received_qty + 1, l.received_qty)
              .allocations[i].allocated_qty
            = allocations[i].allocated_qty + 1

\* in FIFO mode the first unit received went to the older Normal work order
\* and not to the newer Critical one
C27_Witness ==
  /\ result.op = "update" /\ result.ok
  /\ config.allocation_mode = "FIFO"
  /\ Len(audit_new) >= 1
  /\ audit_new[1].old_value = "received=0"
  /\ audit_new[1].new_value = "received=1"
  /\ \E a, b \in Range(AllocRowsOfLine(allocations, audit_new[1].entity_id)) :
       /\ WorkOrderOf(a.wo_id).priority = "Normal" /\ a.allocated_qty = 1
       /\ WorkOrderOf(b.wo_id).priority = "Critical" /\ b.allocated_qty = 0
       /\ WorkOrderOf(a.wo_id).created_date < WorkOrderOf(b.wo_id).created_date

\* C28: the allocation mode in force when a procurement update runs is the
\* one stored at that moment: in Manual Only an accepted update leaves every
\* allocation as it is, in an automatic mode an increase is handed out in
\* the order of the stored mode; saving a mode changes no allocation, batch
\* line or part line.
C28_ModeIsReadAtEachUpdate ==
  [][/\ \A mode \in ALLOCATION_MODES :
          page_settings_save_mode(mode)
          => /\ config'.allocation_mode = mode
             /\ UNCHANGED <<allocations, wo_part_lines, batch_lines, batches>>
     /\ \A l \in Range(batch_lines), d \in ProcurementDetails, n \in 0 .. MaxReceived :
          ( /\ svc_update_procurement_line(l.batch_line_id, d, n)
            /\ result'.ok
            /\ n > l.received_qty )
          => IF config.allocation_mode = "Manual Only"
             THEN allocations' = allocations
             ELSE LET rows == OnLine(l.batch_line_id) IN
                  /\ (\E i \in rows : OutstandingOf(i) > 0)
                       => allocations' # allocations
                  /\ \A i \in rows, j \in rows :
                       ( /\ PolicyBefore(config.allocation_mode, allocations[i], allocations[j])
                         /\ allocations'[j].allocated_qty > allocations[j].allocated_qty )
                       => allocations'[i].allocated_qty
                            >= RequiredOf(wo_part_lines, allocations[i].line_id)]_vars

\* the first unit was handed out by priority, the mode was then set to
\* Manual Only, and the second unit received was handed to nobody
C28_Witness ==
  /\ result.op = "update" /\ result.ok
  /\ config.allocation_mode = "Manual Only"
  /\ Len(audit_new) >= 1
  /\ audit_new[1].old_value = "received=1"
  /\ audit_new[1].new_value = "received=2"
  /\ \E a, b \in Range(AllocRowsOfLine(allocations, audit_new[1].entity_id)) :
       /\ WorkOrderOf(a.wo_id).priority = "Critical" /\ a.allocated_qty = 1
       /\ WorkOrderOf(b.wo_id).priority = "Normal" /\ b.allocated_qty = 0

\* the required quantities of the rows of the line that the mode serves
\* before row i
RequiredBefore(mode, batch_line_id, i) ==
  SeqSum([j \in DOMAIN allocations |->
            IF /\ j \in OnLine(batch_line_id)
               /\ PolicyBefore(mode, allocations[j], allocations[i])
            THEN RequiredOf(wo_part_lines, allocations[j].line_id)
            ELSE 0])

\* C29: after resetAllocationToAuto on a batch line in an automatic mode,
\* every allocation of the line has status Allocated and holds what a
\* distribution of the line's received_qty over all-zero allocations gives
\* it in policy order: its required quantity, or what is left of the
\* received quantity after the rows served before it, whatever quantities
\* and statuses the allocations had.
C29_ResetRedistributesFromZero ==
  [][\A l \in Range(batch_lines) :
       ( /\ svc_reset_allocation_to_auto(l.batch_line_id)
         /\ config.allocation_mode # "Manual Only" )
       => \A i \in OnLine(l.batch_line_id) :
            /\ allocations'[i].allocation_status = "Allocated"
            /\ allocations'[i].allocated_qty =
                 Min(RequiredOf(wo_part_lines, allocations[i].line_id),
                     Clip0(l.received_qty
                           - RequiredBefore(config.allocation_mode, l.batch_line_id, i)))]_vars

\* a reset in FIFO mode has served the older Normal work order in full and
\* given the rest to the Critical one, and no row is ManualOverride
C29_Witness ==
  /\ result.op = "reset" /\ result.ok
  /\ config.allocation_mode = "FIFO"
  /\ Len(audit_new) = 1
  /\ audit_new[1].action = "RESET_TO_AUTO"
  /\ audit_new[1].new_value = "received=2"
  /\ \A a \in Range(AllocRowsOfLine(allocations, audit_new[1].entity_id)) :
       /\ a.allocation_status = "Allocated"
       /\ a.allocated_qty = 1
  /\ Len(AllocRowsOfLine(allocations, audit_new[1].entity_id)) = 2

\* C30: in every state, so after every operation that writes the part
\* lines, each part line has outstanding_qty = max(0, required_qty -
\* received_qty) and status Ready if received_qty >= required_qty, Partial
\* if 0 < received_qty < required_qty, Waiting if received_qty = 0.
C30_PartLineFieldsAreDerived ==
  \A p \in Range(wo_part_lines) :
    /\ p.outstanding_qty =
         IF p.required_qty - p.received_qty > 0 THEN p.required_qty - p.received_qty ELSE 0
    /\ p.received_qty >= p.required_qty => p.line_status = "Ready"
    /\ (0 < p.received_qty /\ p.received_qty < p.required_qty) => p.line_status = "Partial"
    /\ p.received_qty = 0 => p.line_status = "Waiting"

\* an accepted override has just written the part lines, and they now hold
\* a Ready line, a Partial line and a Waiting line
C30_Witness ==
  /\ result.op = "override" /\ result.ok
  /\ Len(audit_new) >= 1
  /\ \E p \in Range(wo_part_lines) :
       /\ p.line_status = "Partial"
       /\ \E a \in Range(allocations) :
            a.line_id = p.line_id /\ a.allocation_status = "ManualOverride"
  /\ \E p \in Range(wo_part_lines) : p.line_status = "Ready"
  /\ \E p \in Range(wo_part_lines) : p.line_status = "Waiting" /\ p.received_qty = 0
  /\ \A p \in Range(wo_part_lines) : p.received_qty >= 0

\* C31: allocations are created by createBatch alone and never deleted:
\* every step keeps each stored allocation at its place with its
\* allocation_id, batch_line_id, wo_id and line_id, a step that is not a
\* successful createBatch adds none, and every step keeps each stored batch
\* line with its batch_line_id, batch_id, part_no and total_required_qty.
C31_AllocationsAndRequiredTotalsAreFixed ==
  [][/\ Len(allocations') >= Len(allocations)
     /\ \A i \in DOMAIN allocations :
          /\ allocations'[i].allocation_id = allocations[i].allocation_id
          /\ allocations'[i].batch_line_id = allocations[i].batch_line_id
          /\ allocations'[i].wo_id = allocations[i].wo_id
          /\ allocations'[i].line_id = allocations[i].line_id
     /\ ~(result'.op = "create" /\ result'.ok)
          => /\ Len(allocations') = Len(allocations)
             /\ Len(batch_lines') = Len(batch_lines)
     /\ Len(batch_lines') >= Len(batch_lines)
     /\ \A i \in DOMAIN batch_lines :
          /\ batch_lines'[i].batch_line_id = batch_lines[i].batch_line_id
          /\ batch_lines'[i].batch_id = batch_lines[i].batch_id
          /\ batch_lines'[i].part_no = batch_lines[i].part_no
          /\ batch_lines'[i].total_required_qty = batch_lines[i].total_required_qty]_vars

\* an engine run of a procurement update has changed a quantity while the
\* batch holds allocations of two batch lines
C31_Witness ==
  /\ result.op = "update" /\ result.ok
  /\ \E a, b \in Range(allocations) :
       /\ a.batch_line_id # b.batch_line_id
       /\ a.allocated_qty > 0
       /\ \E r \in Range(audit_new) :
            r.action = "PROCUREMENT_UPDATE" /\ r.entity_id = a.batch_line_id

\* C32: with the mode fixed to an automatic one and no override ever
\* applied, after any sequence of accepted procurement updates every
\* allocation holds what a distribution of the line's current received_qty
\* from all-zero allocations gives it in policy order, and the allocated
\* total of the line is min(received_qty, total required of its demands).
C32_UpdatesEqualFromScratchDistribution ==
  \A l \in Range(batch_lines) :
    /\ \A i \in OnLine(l.batch_line_id) :
         allocations[i].allocated_qty =
           Min(RequiredOf(wo_part_lines, allocations[i].line_id),
               Clip0(l.received_qty
                     - RequiredBefore(config.allocation_mode, l.batch_line_id, i)))
    /\ SumAllocated(allocations, l.batch_line_id) =
         Min(l.received_qty,
             SeqSum([i \in DOMAIN allocations |->
                       IF i \in OnLine(l.batch_line_id)
                       THEN RequiredOf(wo_part_lines, allocations[i].line_id)
                       ELSE 0]))

\* C33: across every operation, manual transitions and procurement updates
\* with their recomputation alike, a batch keeps its status or moves to the
\* immediate successor in the order Draft, Subm to Procurement, Under
\* Procurement, Partially Received, Fully Received, Closed.
C33_StatusMovesOneStepForward ==
  [][\A b \in Range(batches) :
       \/ StatusOf(batches', b.batch_id) = b.batch_status
       \/ IsSuccessor(b.batch_status, StatusOf(batches', b.batch_id))]_vars

\* C34: in every reachable state, a batch whose status is Fully Received or
\* Closed has, on each of its batch lines, a received quantity of at least the
\* line's total required quantity, whether the status came from a manual
\* transition or from the recomputation after a procurement update.
C34_FullyReceivedBatchHasEveryLineReceived ==
  \A b \in Range(batches) :
    b.batch_status \in {"Fully Received", "Closed"} =>
      \A l \in Range(batch_lines) :
        l.batch_id = b.batch_id => l.received_qty >= l.total_required_qty


MaxAuditReactivation == 7

\* Batch creation, manual transitions and receipts, far enough for a batch to
\* be marked Fully Received, a second batch to be created, and the first one
\* to receive a further update.
NextReactivation ==
  \/ CreateBatch /\ AuditWithin(MaxAuditReactivation)
  \/ TransitionBatch /\ AuditWithin(MaxAuditReactivation)
  \/ UpdateProcurementLine /\ AuditWithin(MaxAuditReactivation)

SpecReactivation == Init /\ [][NextReactivation]_vars

\* the active batches whose batch lines hold an allocation of the part line
ActiveBatchesOf(line_id) ==
  {b.batch_id : b \in {x \in Range(batches) :
     /\ x.batch_status \in {"Draft", "Subm to Procurement", "Under Procurement",
                            "Partially Received"}
     /\ \E a \in Range(allocations), l \in Range(batch_lines) :
          /\ a.line_id = line_id
          /\ a.batch_line_id = l.batch_line_id
          /\ l.batch_id = x.batch_id}}

\* C35: in every reachable state, no work order part line is linked, through
\* allocations, to batch lines of two different batches that are both in
\* Draft, Subm to Procurement, Under Procurement or Partially Received; this
\* includes the states after a Fully Received batch is moved back by the
\* recomputation.
C35_PartLineInAtMostOneActiveBatch ==
  \A p \in Range(wo_part_lines) : Cardinality(ActiveBatchesOf(p.line_id)) <= 1


\* C36: applyAllocationOverride for a batch line changes only allocations of
\* that batch line, so an edit that names an allocation of another batch line
\* is not applied; and when the call is accepted, the quantity allocated on
\* the batch line after the edits, edited and unedited allocations together,
\* is at most the line's received quantity.
C36_OverrideStaysOnItsLineWithinReceived ==
  [][result'.op = "override" =>
       \A bl \in BatchLineIds :
         \A edits \in OneRowTables \cup LineTables(bl) :
           svc_apply_allocation_override(edits, bl) =>
             /\ \A i \in DOMAIN allocations :
                  allocations[i].batch_line_id # bl => allocations'[i] = allocations[i]
             /\ result'.ok =>
                  SumAllocated(allocations', bl)
                    <= (CHOOSE l \in Range(batch_lines) : l.batch_line_id = bl).received_qty]_vars


\* One batch: receipts and override tables of one or several rows.
NextOverride ==
  \/ CreateBatchUpTo(MaxBatchesAllocation) /\ AuditWithin(MaxAudit)
  \/ UpdateProcurementLine /\ AuditWithin(MaxAudit)
  \/ ApplyAllocationOverride /\ AuditWithin(MaxAudit)

SpecOverride == Init /\ [][NextOverride]_vars

\* C37: in an accepted applyAllocationOverride, every applied edit whose
\* quantity differs from the stored quantity leaves its allocation in status
\* ManualOverride, whatever status the edit supplies, and every applied edit
\* whose quantity equals the stored quantity leaves its allocation in the
\* status the edit supplies.
C37_OverrideStatusFollowsQuantityChange ==
  [][(result'.op = "override" /\ result'.ok) =>
       \A bl \in BatchLineIds :
         \A edits \in OneRowTables \cup LineTables(bl) :
           svc_apply_allocation_override(edits, bl) =>
             \A i \in AppliedEdits(edits) :
               \A k \in DOMAIN allocations :
                 allocations[k].allocation_id = edits[i].allocation_id =>
                   allocations'[k].allocation_status =
                     IF edits[i].allocated_qty # allocations[k].allocated_qty
                     THEN "ManualOverride"
                     ELSE edits[i].allocation_status]_vars

\* an accepted override of two edits: one changed the quantity and left
\* ManualOverride, the other kept the quantity and left the status Packed
C37_Witness ==
  /\ result.op = "override"
  /\ result.ok
  /\ \E j, k \in DOMAIN audit_new :
       /\ audit_new[j].action = "OVERRIDE"
       /\ audit_new[k].action = "OVERRIDE"
       /\ audit_new[j].old_value # audit_new[j].new_value
       /\ audit_new[k].old_value = audit_new[k].new_value
       /\ \E a, b \in Range(allocations) :
            /\ a.allocation_id = audit_new[j].entity_id
            /\ b.allocation_id = audit_new[k].entity_id
            /\ a.allocation_status = "ManualOverride"
            /\ b.allocation_status = "Packed"


\* what an engine run for batch_line_id may change between the tables it
\* read and the tables it wrote: the quantity of that line's allocations and
\* the received quantity of the part lines those allocations reference
EngineFrame(allocs, wpl, batch_line_id, allocs_after, wpl_after) ==
  LET referenced == {a.line_id : a \in Range(AllocRowsOfLine(allocs, batch_line_id))} IN
  /\ Len(allocs_after) = Len(allocs)
  /\ \A i \in DOMAIN allocs :
       /\ allocs_after[i] = [allocs[i] EXCEPT !.allocated_qty = allocs_after[i].allocated_qty]
       /\ allocs[i].batch_line_id # batch_line_id => allocs_after[i] = allocs[i]
  /\ Len(wpl_after) = Len(wpl)
  /\ \A j \in DOMAIN wpl :
       /\ wpl_after[j].line_id = wpl[j].line_id
       /\ wpl[j].line_id \notin referenced => wpl_after[j].received_qty = wpl[j].received_qty

\* C38: the engine run of an accepted updateProcurementLine, and the engine
\* run of resetAllocationToAuto after the line was zeroed, change the
\* allocated quantity only on allocations of their batch line, leave the
\* status and notes of every allocation as they were, leave the received
\* quantity of every other batch line as it was, and change the received
\* quantity of a part line only if an allocation of the batch line
\* references it.
C38_EngineTouchesOnlyItsLine ==
  [][(result'.op \in {"update", "reset"} /\ result'.ok) =>
       LET bl == audit_new'[1].entity_id IN
       /\ result'.op = "update" =>
            EngineFrame(allocations, wo_part_lines, bl, allocations', wo_part_lines')
       /\ result'.op = "reset" =>
            EngineFrame(ZeroedAllocations(allocations, bl), wo_part_lines, bl,
                        allocations', wo_part_lines')
       /\ Len(batch_lines') = Len(batch_lines)
       /\ \A l \in DOMAIN batch_lines :
            batch_lines[l].batch_line_id # bl =>
              batch_lines'[l].received_qty = batch_lines[l].received_qty]_vars

\* an accepted update whose engine run allocated on its batch line, while
\* another batch line has an allocation on a part line whose received
\* quantity differs from what is allocated to it
C38_Witness ==
  /\ result.op = "update"
  /\ result.ok
  /\ \E a, b \in Range(allocations) :
       /\ a.batch_line_id = audit_new[1].entity_id
       /\ a.allocated_qty > 0
       /\ b.batch_line_id # a.batch_line_id
       /\ \E p \in Range(wo_part_lines) :
            /\ p.line_id = b.line_id
            /\ p.received_qty # b.allocated_qty
            /\ \A c \in Range(allocations) :
                 c.line_id = p.line_id => c.batch_line_id # a.batch_line_id


MaxAuditClosed == 6

\* One batch: its lifecycle up to Closed, then overrides and resets.
NextClosed ==
  \/ CreateBatchUpTo(MaxBatchesAllocation) /\ AuditWithin(MaxAuditClosed)
  \/ TransitionBatch /\ AuditWithin(MaxAuditClosed)
  \/ ApplyOneOverride /\ AuditWithin(MaxAuditClosed)
  \/ ResetAllocationToAuto /\ AuditWithin(MaxAuditClosed)

SpecClosed == Init /\ [][NextClosed]_vars

\* C39: once a batch is Closed, the allocated quantity and the status of the
\* allocations on its batch lines never change: an override or a reset on a
\* line of a Closed batch is rejected or has no effect.
C39_ClosedBatchAllocationsAreFrozen ==
  [][\A i \in DOMAIN allocations :
       StatusOf(batches, BatchOfLine(batch_lines, allocations[i].batch_line_id)) = "Closed"
         => /\ allocations'[i].allocated_qty = allocations[i].allocated_qty
            /\ allocations'[i].allocation_status = allocations[i].allocation_status]_vars

====
